---- MODULE Spec2Model ----
(***************************************************************************)
(* Authentication and per-resource authorisation layer of the todo         *)
(* application: the owner-scoped task store and its HTTP handlers, the JWT *)
(* middleware, the sliding-window rate limiter and the login handler.      *)
(* Each subsystem has its own specification over the shared variables.     *)
(***************************************************************************)
EXTENDS Integers, Sequences, FiniteSets, TLC

VARIABLES
    tasks,      \* rows of the task table (set of Task records)
    task_seq,   \* last primary key handed out by the task table
    last,       \* the request served last by the task/auth API and its response
    clock,      \* the wall clock, in ticks (TicksPerSecond ticks to a second)
    gate,       \* JWTAuthMiddleware: the request in hand and its outcome
    requests,   \* RateLimiter.requests of each limiter: key -> deque of timestamps
    lock,       \* RateLimiter.lock of each limiter: the thread holding it
    thr,        \* the threads calling is_allowed: where each is in the call
    policy,     \* the (max_requests, window_size) the callers of the limiter pass
    admitted,   \* history: per key, the timestamps of the admitted calls
    batch,      \* history: the calls made since all threads were last idle
    login,      \* POST /auth/login: the request in hand and how far it has got
    calls,      \* history: per key, the is_allowed calls on the login limiter
    posts,      \* history: per key, the POST /auth/login requests
    codec,      \* jwt_utils called directly: the call in hand and its result
    process,    \* the server process: its environment and how far it has started
    session,    \* PUT/PATCH of a task in flight: its db session and how far it has got
    users,      \* the user table: the emails that have an account
    admissions, \* history: per client connection, the instants its logins were admitted
    cli         \* the console application: its TaskManager and the option handled last

storeVars == <<tasks, task_seq, last>>
gateVars == <<clock, gate>>
limiterVars == <<requests, lock, thr, policy, admitted, batch>>

loginVars == <<login, calls, posts, users, admissions>>

codecVars == <<codec>>

startupVars == <<process>>

sessionVars == <<session>>

cliVars == <<cli>>

vars == <<tasks, task_seq, last, clock, gate, requests, lock, thr, policy, admitted,
          batch, login, calls, posts, codec, process,
          session, users, admissions, cli>>

\* what the handlers of the task API leave alone
outsideStore == <<clock, gate, limiterVars, loginVars, codecVars, startupVars,
                  sessionVars, cliVars>>
\* what the middleware leaves alone
outsideGate == <<tasks, task_seq, last, limiterVars, loginVars, codecVars,
                 startupVars, sessionVars, cliVars>>
\* what the rate limiter leaves alone
outsideLimiter == <<tasks, task_seq, last, gate, loginVars, codecVars, startupVars,
                    sessionVars, cliVars>>
\* what the login endpoint leaves alone
outsideLogin == <<tasks, task_seq, last, gate, lock, thr, policy, admitted, batch,
                  codecVars, startupVars, sessionVars, cliVars>>
\* what the token functions leave alone
outsideCodec == <<tasks, task_seq, last, gate, limiterVars, loginVars, startupVars,
                  sessionVars, cliVars>>
\* what the start of the process leaves alone
outsideStartup == <<storeVars, gateVars, limiterVars, loginVars, codecVars, sessionVars,
                    cliVars>>
\* what the session of a request in flight leaves alone, the table apart
outsideSession == <<gateVars, limiterVars, loginVars, codecVars, startupVars, cliVars>>
\* what the console application leaves alone
outsideCli == <<storeVars, gateVars, limiterVars, loginVars, codecVars, startupVars,
                sessionVars>>

-----------------------------------------------------------------------------
(* Bounds of the store model *)

NumUsers == 2
MaxTasks == 2

UserIds == 1..NumUsers
\* ids that may appear in a URL: every user id and one id of no user
UrlUserIds == 1..(NumUsers + 1)
\* ids that may appear in a URL: every key the table can hand out and one more
TaskIds == 1..(MaxTasks + 1)

Titles == {"a", "b"}
Descriptions == {"d"}

-----------------------------------------------------------------------------
(* HTTP status codes and response details *)

HTTP_200_OK == 200
HTTP_403_FORBIDDEN == 403
HTTP_404_NOT_FOUND == 404

\* details are kept as their sequence of words
TaskNotFound == <<"Task", "not", "found">>
UserNotFound == <<"User", "not", "found">>
AccessDenied == <<"Access", "denied:", "user", "ID", "in", "URL", "does", "not",
                  "match", "authenticated", "user">>
TaskDeleted == <<"Task", "deleted", "successfully">>
NoDetail == <<>>

\* substring test on word sequences
Contains(words, sub) ==
    \E i \in 1..Len(words) :
        /\ i + Len(sub) - 1 <= Len(words)
        /\ SubSeq(words, i, i + Len(sub) - 1) = sub

Response(status, detail, body) == [status |-> status, detail |-> detail, body |-> body]

-----------------------------------------------------------------------------
(* UserIsolationService *)

\* select(model).where(user_id == u).all()
create_user_scoped_query(rows, user_id) == {t \in rows : t.user_id = user_id}

\* the mutant runs the query without its where clause
get_user_owned_resources_unscoped(rows, user_id) == rows

get_user_owned_resources(rows, user_id) == create_user_scoped_query(rows, user_id)

\* the mutant drops the owner filter of the query
get_single_user_resource_any_owner(rows, resource_id, user_id) ==
    {t \in rows : t.id = resource_id}

\* select(model).where(user_id == u, pk == r).first(): the empty set is None
get_single_user_resource(rows, resource_id, user_id) ==
    {t \in rows : t.user_id = user_id /\ t.id = resource_id}

\* the fields a Task object has (hasattr)
TaskFields == {"id", "title", "description", "is_completed", "updated_at", "user_id"}

\* the mutant replaces the resource: a field the patch does not name goes
\* back to the default of the model
ReplaceWith(t, update_data) ==
    [f \in DOMAIN t |->
        IF f \in DOMAIN update_data THEN update_data[f]
        ELSE IF f = "is_completed" THEN FALSE
        ELSE IF f = "description" THEN "<None>"
        ELSE t[f]]

\* setattr for every field of update_data the resource has
ApplyPatch(t, update_data) ==
    [f \in DOMAIN t |-> IF f \in DOMAIN update_data THEN update_data[f] ELSE t[f]]

\* db_session.commit(): the UPDATE is emitted when an attribute has a new
\* value, and then the column's onupdate (Task.updated_at) is applied
onupdate(before, after, update_data, utcnow) ==
    IF after # before /\ "updated_at" \notin DOMAIN update_data
    THEN [after EXCEPT !.updated_at = utcnow]
    ELSE after

\* the mutant updates the row whoever owns it
update_user_resource_unscoped(rows, resource_id, user_id, update_data, utcnow) ==
    LET found == {t \in rows : t.id = resource_id}
    IN  IF found = {} THEN [ok |-> FALSE, rows |-> rows]
        ELSE [ok |-> TRUE,
              rows |-> (rows \ found)
                         \cup {onupdate(t, ApplyPatch(t, update_data), update_data, utcnow) :
                                  t \in found}]

\* result: the success flag and the table after the commit, made with the
\* clock at utcnow
update_user_resource(rows, resource_id, user_id, update_data, utcnow) ==
    LET found == get_single_user_resource(rows, resource_id, user_id)
    IN  IF found = {} THEN [ok |-> FALSE, rows |-> rows]
        ELSE [ok |-> TRUE,
              rows |-> (rows \ found)
                         \cup {onupdate(t, ApplyPatch(t, update_data), update_data, utcnow) :
                                  t \in found}]

delete_user_resource(rows, resource_id, user_id) ==
    LET found == get_single_user_resource(rows, resource_id, user_id)
    IN  IF found = {} THEN [ok |-> FALSE, rows |-> rows]
        ELSE [ok |-> TRUE, rows |-> rows \ found]

-----------------------------------------------------------------------------
(* Inputs of the handlers *)

Restrict(f, D) == [x \in D |-> f[x]]

\* TaskCreate: title required, description defaults to None, is_completed to False
NoDescription == "<None>"
TaskCreates == [title : Titles, description : Descriptions \cup {NoDescription},
                is_completed : {FALSE}]

\* TaskUpdate: every field optional; a field left None is not in the domain
TaskUpdates ==
    {Restrict(full, D) :
        full \in [title : Titles, description : Descriptions, is_completed : BOOLEAN],
        D \in SUBSET {"title", "description", "is_completed"}}

\* TaskPatch: is_completed required
TaskPatches == [is_completed : BOOLEAN]

\* update_data dictionaries handed to the service by its direct callers
UpdateDicts ==
    {[title |-> "b"], [is_completed |-> TRUE], [title |-> "a", is_completed |-> FALSE],
     [bogus |-> TRUE]}
        \cup {[user_id |-> u] : u \in UserIds}

\* the request bodies tried for a URL: one is enough when the URL's user id is
\* not the principal's, since the handler answers before it reads the body
BodiesFor(bodies, u, c) == IF u = c THEN bodies ELSE {CHOOSE b \in bodies : TRUE}

-----------------------------------------------------------------------------
(* api/tasks.py: each handler maps the table and the request to the table  *)
(* after the request and the response                                      *)

Served(rows, resp) == [rows |-> rows, resp |-> resp]

\* raise HTTPException(403) when the URL's user id is not the principal's
UrlMismatch == Response(HTTP_403_FORBIDDEN, AccessDenied, {})

TaskMissing == Response(HTTP_404_NOT_FOUND, TaskNotFound, {})

get_tasks(rows, user_id, current_user_id) ==
    IF user_id # current_user_id THEN Served(rows, UrlMismatch)
    ELSE Served(rows, Response(HTTP_200_OK, NoDetail,
                               get_user_owned_resources(rows, current_user_id)))

create_task(rows, seq, user_id, task_data, current_user_id, utcnow) ==
    IF user_id # current_user_id THEN Served(rows, UrlMismatch)
    ELSE LET db_task == [id |-> seq + 1, title |-> task_data.title,
                         description |-> task_data.description,
                         is_completed |-> task_data.is_completed,
                         updated_at |-> utcnow,
                         user_id |-> current_user_id]
         IN  Served(rows \cup {db_task}, Response(HTTP_200_OK, NoDetail, {db_task}))

get_task(rows, user_id, task_id, current_user_id) ==
    IF user_id # current_user_id THEN Served(rows, UrlMismatch)
    ELSE LET task == get_single_user_resource(rows, task_id, current_user_id)
         IN  IF task = {} THEN Served(rows, TaskMissing)
             ELSE Served(rows, Response(HTTP_200_OK, NoDetail, task))

update_task(rows, user_id, task_id, task_data, current_user_id, utcnow) ==
    IF user_id # current_user_id THEN Served(rows, UrlMismatch)
    ELSE LET update_data == task_data  \* the fields of task_data that are not None
             done == update_user_resource(rows, task_id, current_user_id, update_data,
                                          utcnow)
         IN  IF ~done.ok THEN Served(rows, TaskMissing)
             ELSE Served(done.rows,
                         Response(HTTP_200_OK, NoDetail,
                                  get_single_user_resource(done.rows, task_id,
                                                           current_user_id)))

update_task_status(rows, user_id, task_id, task_data, current_user_id, utcnow) ==
    IF user_id # current_user_id THEN Served(rows, UrlMismatch)
    ELSE LET update_data == [is_completed |-> task_data.is_completed]
             done == update_user_resource(rows, task_id, current_user_id, update_data,
                                          utcnow)
         IN  IF ~done.ok THEN Served(rows, TaskMissing)
             ELSE Served(done.rows,
                         Response(HTTP_200_OK, NoDetail,
                                  get_single_user_resource(done.rows, task_id,
                                                           current_user_id)))

delete_task(rows, user_id, task_id, current_user_id) ==
    IF user_id # current_user_id THEN Served(rows, UrlMismatch)
    ELSE LET done == delete_user_resource(rows, task_id, current_user_id)
         IN  IF ~done.ok THEN Served(rows, TaskMissing)
             ELSE Served(done.rows, Response(HTTP_200_OK, TaskDeleted, {}))

-----------------------------------------------------------------------------
(* api/auth.py: GET /auth/{user_id} *)

\* rows of the user table: every principal has a row
UserRows == {[id |-> u] : u \in UserIds}

auth_get_user_by_id(user_rows, user_id) == {u \in user_rows : u.id = user_id}

get_user_by_id(user_rows, user_id, current_user_id) ==
    IF current_user_id # user_id THEN Response(HTTP_404_NOT_FOUND, UserNotFound, {})
    ELSE LET user == auth_get_user_by_id(user_rows, user_id)
         IN  IF user = {} THEN Response(HTTP_404_NOT_FOUND, UserNotFound, {})
             ELSE Response(HTTP_200_OK, NoDetail, user)

-----------------------------------------------------------------------------
(* The store as a state machine *)

Request(op, user_id, task_id, current_user_id) ==
    [op |-> op, user_id |-> user_id, task_id |-> task_id,
     current_user_id |-> current_user_id]

NoRequest == Request("none", 0, 0, 0)

InitStore ==
    /\ tasks = {}
    /\ task_seq = 0
    /\ last = [req |-> NoRequest, resp |-> Response(0, NoDetail, {}), ok |-> FALSE]

Serve(req, served) ==
    /\ UNCHANGED outsideStore
    /\ tasks' = served.rows
    /\ last' = [req |-> req, resp |-> served.resp, ok |-> served.resp.status = HTTP_200_OK]

GetTasks ==
    \E u \in UrlUserIds, c \in UserIds :
        /\ Serve(Request("get_tasks", u, 0, c), get_tasks(tasks, u, c))
        /\ UNCHANGED task_seq

CreateTask ==
    \E u \in UrlUserIds, c \in UserIds : \E d \in BodiesFor(TaskCreates, u, c) :
        /\ task_seq < MaxTasks
        /\ Serve(Request("create_task", u, 0, c), create_task(tasks, task_seq, u, d, c, clock))
        /\ task_seq' = IF u = c THEN task_seq + 1 ELSE task_seq

GetTask ==
    \E u \in UrlUserIds, c \in UserIds, t \in TaskIds :
        /\ Serve(Request("get_task", u, t, c), get_task(tasks, u, t, c))
        /\ UNCHANGED task_seq

UpdateTask ==
    \E u \in UrlUserIds, c \in UserIds, t \in TaskIds :
      \E d \in BodiesFor(TaskUpdates, u, c) :
        /\ Serve(Request("update_task", u, t, c),
                 update_task(tasks, u, t, d, c, clock))
        /\ UNCHANGED task_seq

UpdateTaskStatus ==
    \E u \in UrlUserIds, c \in UserIds, t \in TaskIds :
      \E d \in BodiesFor(TaskPatches, u, c) :
        /\ Serve(Request("update_task_status", u, t, c),
                 update_task_status(tasks, u, t, d, c, clock))
        /\ UNCHANGED task_seq

DeleteTask ==
    \E u \in UrlUserIds, c \in UserIds, t \in TaskIds :
        /\ Serve(Request("delete_task", u, t, c), delete_task(tasks, u, t, c))
        /\ UNCHANGED task_seq

GetUserById ==
    \E u \in UrlUserIds, c \in UserIds :
        /\ Serve(Request("get_user_by_id", u, 0, c),
                 Served(tasks, get_user_by_id(UserRows, u, c)))
        /\ UNCHANGED task_seq

\* direct calls of the service, as its tests and other callers make them
SvcGet ==
    \E c \in UserIds, t \in TaskIds :
        /\ UNCHANGED outsideStore
        /\ tasks' = tasks
        /\ last' = [req |-> Request("get_single_user_resource", c, t, c),
                    resp |-> Response(0, NoDetail,
                                      get_single_user_resource(tasks, t, c)),
                    ok |-> get_single_user_resource(tasks, t, c) # {}]
        /\ UNCHANGED task_seq

SvcList ==
    \E c \in UrlUserIds :
        /\ UNCHANGED outsideStore
        /\ tasks' = tasks
        /\ last' = [req |-> Request("get_user_owned_resources", c, 0, c),
                    resp |-> Response(0, NoDetail, get_user_owned_resources(tasks, c)),
                    ok |-> TRUE]
        /\ UNCHANGED task_seq

SvcUpdate ==
    \E c \in UserIds, t \in TaskIds, d \in UpdateDicts :
        LET done == update_user_resource(tasks, t, c, d, clock)
        IN  /\ UNCHANGED outsideStore
            /\ tasks' = done.rows
            /\ last' = [req |-> Request("update_user_resource", c, t, c),
                        resp |-> Response(0, NoDetail, {}), ok |-> done.ok]
            /\ UNCHANGED task_seq

SvcDelete ==
    \E c \in UserIds, t \in TaskIds :
        LET done == delete_user_resource(tasks, t, c)
        IN  /\ UNCHANGED outsideStore
            /\ tasks' = done.rows
            /\ last' = [req |-> Request("delete_user_resource", c, t, c),
                        resp |-> Response(0, NoDetail, {}), ok |-> done.ok]
            /\ UNCHANGED task_seq

NextStore ==
    \/ GetTasks \/ CreateTask \/ GetTask \/ UpdateTask \/ UpdateTaskStatus
    \/ DeleteTask \/ GetUserById \/ SvcGet \/ SvcList \/ SvcUpdate \/ SvcDelete

-----------------------------------------------------------------------------
(* Python values carried by token claims and by request.state *)

PyAbsent == [t |-> "absent"]            \* the key is not in the dictionary
PyNone == [t |-> "none"]
PyInt(n) == [t |-> "int", n |-> n]
PyStr(s) == [t |-> "str", s |-> s]
\* an integer beyond the seconds a datetime can hold, 10**20 say
PyBigInt == [t |-> "bigint"]

\* dict.get(key): None for a missing key
Get(v) == IF v = PyAbsent THEN PyNone ELSE v

\* truth value of a Python object: None, 0 and "" are false
Truthy(v) ==
    CASE v.t = "int" -> v.n # 0
      [] v.t = "str" -> v.s # ""
      [] v.t = "bigint" -> TRUE
      [] OTHER -> FALSE

\* x or y
PyOr(x, y) == IF Truthy(x) THEN x ELSE y

\* int(s) for the strings of the model: the integer, or ValueError
NumericStrings == {"1", "2", "0", "-1", " 2 "}
StrToInt(s) ==
    CASE s = "1" -> 1
      [] s = "2" -> 2
      [] s = " 2 " -> 2
      [] s = "0" -> 0
      [] s = "-1" -> -1

-----------------------------------------------------------------------------
(* lib/jwt_utils.py *)

TicksPerSecond == 2
\* the clock runs from one second after the epoch for MaxClock ticks
MaxClock == 4
StartClock == TicksPerSecond
EndClock == StartClock + MaxClock

\* seconds as a difference of clock readings
Seconds(n) == n * TicksPerSecond

\* expiry claims that tokens carry, in seconds
ExpSeconds == 0..((EndClock \div TicksPerSecond) + 1)

SECRET_KEY == "server-secret"
ALGORITHM == "HS256"

\* a token string, by what its three segments hold: the number of dots, whether
\* the segments decode, the header's algorithm, the key that signed it, the claims.
\* sig tells what the signature segment is: "ok" when it is the signature of
\* this header and payload under `key`, "flipped" when one bit of it was
\* changed afterwards, "stale" when the payload was changed after signing
Token(dots, decodable, alg, key, exp, user_id, sub) ==
    [dots |-> dots, decodable |-> decodable, alg |-> alg, key |-> key, sig |-> "ok",
     claims |-> [exp |-> exp, iat |-> PyAbsent, user_id |-> user_id, sub |-> sub,
                 email |-> PyAbsent]]

NoClaims == [exp |-> PyAbsent, iat |-> PyAbsent, user_id |-> PyAbsent, sub |-> PyAbsent,
             email |-> PyAbsent]

UserIdClaims ==
    {PyAbsent, PyNone, PyInt(0), PyInt(1), PyInt(2), PyInt(-1),
     PyStr("2"), PyStr(" 2 "), PyStr(""), PyStr("abc"), PyStr("0"), PyStr("-1")}
SubClaims == {PyAbsent, PyStr("1"), PyStr("abc"), PyStr(""), PyStr("0"), PyInt(1)}
ExpClaims == {PyAbsent} \cup {PyInt(e) : e \in ExpSeconds}

\* strings that are no JWT: too few or too many dots, or segments that do not decode
MalformedTokens ==
    {[dots |-> n, decodable |-> FALSE, alg |-> ALGORITHM, key |-> SECRET_KEY,
      sig |-> "ok", claims |-> NoClaims] : n \in 0..3}

\* well-formed tokens: signed by this server, by another key, or with another algorithm
Signings == {<<ALGORITHM, SECRET_KEY>>, <<ALGORITHM, "other-secret">>,
             <<"HS384", SECRET_KEY>>}
WellFormedTokens ==
    {Token(2, TRUE, sg[1], sg[2], e, u, sb) :
        sg \in Signings, e \in ExpClaims, u \in UserIdClaims, sb \in SubClaims}

\* tokens this server signed and that were tampered with afterwards
TamperedTokens ==
    {[Token(2, TRUE, ALGORITHM, SECRET_KEY, e, PyInt(1), PyAbsent) EXCEPT !.sig = sg] :
        e \in ExpClaims, sg \in {"flipped", "stale"}}

\* correctly signed tokens whose exp claim is no integer of usual size
OddExpTokens ==
    {Token(2, TRUE, ALGORITHM, SECRET_KEY, e, u, PyAbsent) :
        e \in {PyStr("2"), PyStr("abc"), PyBigInt}, u \in {PyAbsent, PyInt(1)}}

\* correctly signed tokens whose sub claim is null
NullSubTokens ==
    {Token(2, TRUE, ALGORITHM, SECRET_KEY, e, u, PyNone) :
        e \in ExpClaims, u \in {PyAbsent, PyNone, PyInt(1)}}

Tokens ==
    MalformedTokens \cup WellFormedTokens \cup TamperedTokens \cup OddExpTokens
        \cup NullSubTokens

\* what a verification gives: None (Invalid), the claims, or an exception that
\* is not a JWTError and so escapes
Invalid == [valid |-> FALSE, raised |-> FALSE, payload |-> NoClaims]
Valid(payload) == [valid |-> TRUE, raised |-> FALSE, payload |-> payload]
Raised == [valid |-> FALSE, raised |-> TRUE, payload |-> NoClaims]

\* the mutant takes any signature for good
signature_ok_unchecked(token, key) == TRUE

\* the signature segment is the HMAC of the header and payload under key
signature_ok(token, key) == token.key = key /\ token.sig = "ok"

\* jose's _validate_exp: int(claims["exp"]) must succeed and not lie before now
exp_rejected(exp, now) ==
    CASE exp.t = "int" -> exp.n < now
      [] exp.t = "str" -> exp.s \notin NumericStrings \/ StrToInt(exp.s) < now
      [] OTHER -> FALSE

\* jose.jwt.decode(token, key, algorithms) at `now` seconds: the claims, or JWTError
jwt_decode(token, key, algorithms, now) ==
    IF token.dots # 2 \/ ~token.decodable THEN Invalid
    ELSE IF token.alg \notin algorithms THEN Invalid
    ELSE IF ~signature_ok(token, key) THEN Invalid
    ELSE IF exp_rejected(token.claims.exp, now) THEN Invalid
    ELSE IF token.claims.sub # PyAbsent /\ token.claims.sub.t # "str" THEN Invalid
    ELSE Valid(token.claims)

\* datetime.utcfromtimestamp(x) raises for a string and for an integer out of range
utcfromtimestamp_raises(x) == x.t \in {"str", "bigint"}

\* datetime.utcfromtimestamp(seconds), as a clock reading
utcfromtimestamp(seconds) == seconds * TicksPerSecond

\* the body of verify_token under the SECRET_KEY the module holds
verify_token_under(secret_key, token, utcnow) ==
    LET decoded == jwt_decode(token, secret_key, {ALGORITHM}, utcnow \div TicksPerSecond)
        exp_timestamp == Get(decoded.payload.exp)
    IN  IF ~decoded.valid THEN Invalid
        ELSE IF Truthy(exp_timestamp) /\ utcfromtimestamp_raises(exp_timestamp)
             THEN Raised
        ELSE IF Truthy(exp_timestamp) /\ utcnow > utcfromtimestamp(exp_timestamp.n)
             THEN Invalid
        ELSE decoded

\* verify_token(token) with the clock at utcnow
verify_token(token, utcnow) == verify_token_under(SECRET_KEY, token, utcnow)

\* `if payload:` a dictionary is true when it has a key
PayloadTruthy(result) == result.valid /\ result.payload # NoClaims

\* what get_user_id_from_token gives: a value, or the exception of verify_token
Returned(value) == [raised |-> FALSE, value |-> value]
Escaped == [raised |-> TRUE, value |-> PyNone]

\* lines 144-146: sub is read first and user_id only when sub is false
token_user_id_claim(payload) ==
    IF Truthy(Get(payload.sub)) THEN Get(payload.sub) ELSE Get(payload.user_id)

\* get_user_id_from_token(token) with the clock at utcnow
get_user_id_from_token(token, utcnow) ==
    LET payload == verify_token(token, utcnow)
    IN  IF payload.raised THEN Escaped
        ELSE IF ~PayloadTruthy(payload) THEN Returned(PyNone)
        ELSE LET user_id == token_user_id_claim(payload.payload)
             IN  IF user_id.t = "str"
                 THEN IF user_id.s \in NumericStrings
                      THEN Returned(PyInt(StrToInt(user_id.s)))
                      ELSE Returned(PyNone)
                 ELSE Returned(user_id)

ACCESS_TOKEN_EXPIRE_MINUTES == 1440
SecondsPerMinute == 60

\* expires_delta: None, or a timedelta given in clock ticks
NoDelta == [t |-> "none", ticks |-> 0]
timedelta(ticks) == [t |-> "timedelta", ticks |-> ticks]

\* the lifetimes tried: a second back, none at all, half a second and more
Deltas ==
    {NoDelta} \cup {timedelta(n) : n \in (0 - TicksPerSecond)..(2 * TicksPerSecond)}

\* `if expires_delta:` None and timedelta(0) are false
DeltaTruthy(expires_delta) == expires_delta.t = "timedelta" /\ expires_delta.ticks # 0

\* jose writes a datetime claim as whole seconds since the epoch
timestamp(datetime) == datetime \div TicksPerSecond

\* lines 58-61: the instant of expiry
expire_of(expires_delta, utcnow) ==
    IF DeltaTruthy(expires_delta)
    THEN utcnow + expires_delta.ticks
    ELSE utcnow + Seconds(ACCESS_TOKEN_EXPIRE_MINUTES * SecondsPerMinute)

\* the claim sets handed to create_access_token
ClaimSets ==
    [exp : {PyAbsent, PyInt(0)}, iat : {PyAbsent},
     user_id : {PyAbsent, PyInt(1), PyInt(2), PyStr("2")},
     sub : {PyAbsent, PyStr("1"), PyStr("2"), PyInt(1)},
     email : {PyAbsent, PyStr("a@b.c")}]

\* the mutant also writes the user id into sub, as the integer it is
create_access_token_sub_from_user_id(data, expires_delta, utcnow) ==
    LET to_encode == [data EXCEPT
                         !.sub = IF data.user_id = PyAbsent THEN @ ELSE data.user_id,
                         !.exp = PyInt(timestamp(expire_of(expires_delta, utcnow))),
                         !.iat = PyInt(timestamp(utcnow))]
    IN  [dots |-> 2, decodable |-> TRUE, alg |-> ALGORITHM, key |-> SECRET_KEY,
         sig |-> "ok", claims |-> to_encode]

\* the body of create_access_token under the SECRET_KEY the module holds
create_access_token_under(secret_key, data, expires_delta, utcnow) ==
    LET to_encode == [data EXCEPT
                         !.exp = PyInt(timestamp(expire_of(expires_delta, utcnow))),
                         !.iat = PyInt(timestamp(utcnow))]
    IN  [dots |-> 2, decodable |-> TRUE, alg |-> ALGORITHM, key |-> secret_key,
         sig |-> "ok", claims |-> to_encode]

\* create_access_token(data, expires_delta) with the clock at utcnow
create_access_token(data, expires_delta, utcnow) ==
    create_access_token_under(SECRET_KEY, data, expires_delta, utcnow)

-----------------------------------------------------------------------------
(* middleware/auth_middleware.py: paths *)

\* a path is the sequence of its pieces: "/auth/me/" is <<"/", "auth", "/", "me", "/">>
Root == <<"/">>

PUBLIC_PATHS ==
    {Root, <<"/", "health">>, <<"/", "monitoring", "/", "health">>,
     <<"/", "monitoring", "/", "metrics">>, <<"/", "docs">>, <<"/", "redoc">>,
     <<"/", "openapi.json">>}

PUBLIC_AUTH_PATHS ==
    {<<"/", "auth", "/", "register">>, <<"/", "auth", "/", "login">>,
     <<"/", "auth", "/", "logout">>, <<"/", "auth", "/", "health">>,
     <<"/", "auth", "/", "callback">>}

API_PREFIXES == {<<"/", "api", "/", "v1">>}

\* the mutant strips one trailing slash only
rstrip_once(path) ==
    IF path # <<>> /\ path[Len(path)] = "/" THEN SubSeq(path, 1, Len(path) - 1)
    ELSE path

RECURSIVE rstrip(_)
\* path.rstrip("/")
rstrip(path) ==
    IF path # <<>> /\ path[Len(path)] = "/" THEN rstrip(SubSeq(path, 1, Len(path) - 1))
    ELSE path

startswith(path, prefix) ==
    Len(prefix) <= Len(path) /\ SubSeq(path, 1, Len(prefix)) = prefix

\* the mutant knows the infrastructure paths only
is_public_infrastructure_only(path) == path \in PUBLIC_PATHS

\* the mutant opens everything under /auth, with or without the version prefix
is_public_whole_auth_router(path) ==
    \/ path \in PUBLIC_PATHS
    \/ startswith(path, <<"/", "auth", "/">>)
    \/ \E prefix \in API_PREFIXES : startswith(path, prefix \o <<"/", "auth", "/">>)

is_public(path) ==
    IF path \in PUBLIC_PATHS THEN TRUE
    ELSE LET normalized == IF \E prefix \in API_PREFIXES : startswith(path, prefix)
                           THEN LET prefix == CHOOSE q \in API_PREFIXES : startswith(path, q)
                                IN  SubSeq(path, Len(prefix) + 1, Len(path))
                           ELSE path
         IN  normalized \in PUBLIC_AUTH_PATHS

\* request paths tried
Paths ==
    {Root, <<"/", "health">>, <<"/", "health", "/">>, <<"/", "docs">>,
     <<"/", "auth", "/", "login">>, <<"/", "auth", "/", "login", "/", "/">>,
     <<"/", "auth", "/", "me">>, <<"/", "auth", "/", "me", "/">>,
     <<"/", "auth", "/", "1">>,
     <<"/", "api", "/", "v1", "/", "auth", "/", "register">>,
     <<"/", "api", "/", "v1", "/", "auth", "/", "me">>,
     <<"/", "api", "/", "v1", "/", "auth", "/", "1", "/", "/">>,
     <<"/", "api", "/", "v1", "/", "health">>,
     <<"/", "api", "/", "v1">>,
     <<"/", "api", "/", "1", "/", "tasks">>}

Methods == {"GET", "POST", "OPTIONS"}

-----------------------------------------------------------------------------
(* middleware/auth_middleware.py: JWTAuthMiddleware.dispatch *)

\* the Authorization header: absent, or a scheme word, a space and a token
NoHeader == [scheme |-> "", token |-> CHOOSE t \in MalformedTokens : t.dots = 0]
Header(scheme, token) == [scheme |-> scheme, token |-> token]
Headers ==
    {NoHeader}
        \cup {Header(sc, NoHeader.token) : sc \in {"Basic", "bearer"}}
        \cup {Header("Bearer", t) : t \in Tokens}

HttpRequest(method, path, header) == [method |-> method, path |-> path, header |-> header]
HttpRequests == [method : Methods, path : Paths, header : Headers]

HTTP_401_UNAUTHORIZED == 401

\* what dispatch did with the request: the state of the gate it ended in, the
\* status it answered itself (0: the answer is the handler's), the
\* WWW-Authenticate header, whether call_next ran, and request.state
Outcome(state, status, www_authenticate, handler_called, user_id, token_payload) ==
    [state |-> state, status |-> status, www_authenticate |-> www_authenticate,
     handler_called |-> handler_called, user_id |-> user_id,
     token_payload |-> token_payload]

is_valid_format(token) == token.dots = 2

\* the mutant leaves a string claim as the string it is
middleware_user_id_uncoerced(payload) ==
    LET user_id == PyOr(Get(payload.user_id), Get(payload.sub))
    IN  IF user_id.t = "str" /\ user_id.s \notin NumericStrings THEN PyNone ELSE user_id

\* lines 81-86: the user id read from a verified payload
middleware_user_id(payload) ==
    LET user_id == PyOr(Get(payload.user_id), Get(payload.sub))
    IN  IF user_id.t = "str"
        THEN IF user_id.s \in NumericStrings THEN PyInt(StrToInt(user_id.s)) ELSE PyNone
        ELSE user_id

\* the mutant attaches the claims of a token without verifying it
attach_unverified(header, utcnow) ==
    IF header.scheme = "Bearer" /\ is_valid_format(header.token)
    THEN [user_id |-> middleware_user_id(header.token.claims),
          token_payload |-> Valid(header.token.claims)]
    ELSE [user_id |-> PyNone, token_payload |-> Invalid]

HTTP_500_INTERNAL_SERVER_ERROR == 500

\* lines 72-88: request.state after the header has been inspected
attach(header, utcnow) ==
    IF header.scheme = "Bearer" /\ is_valid_format(header.token)
    THEN LET payload == verify_token(header.token, utcnow)
         IN  IF payload.raised
             THEN [user_id |-> PyNone, token_payload |-> Raised]
             ELSE IF PayloadTruthy(payload)
             THEN [user_id |-> middleware_user_id(payload.payload),
                   token_payload |-> payload]
             ELSE [user_id |-> PyNone, token_payload |-> Invalid]
    ELSE [user_id |-> PyNone, token_payload |-> Invalid]

\* an exception of verify_token is caught nowhere in dispatch: the request ends
\* in the server's answer to an unhandled error
dispatch(request, utcnow) ==
    LET stripped == rstrip(request.path)
        path == IF stripped = <<>> THEN Root ELSE stripped
    IN  IF request.method = "OPTIONS"
        THEN Outcome("Public", 0, FALSE, TRUE, PyAbsent, Invalid)
        ELSE IF is_public(path)
        THEN Outcome("Public", 0, FALSE, TRUE, PyNone, Invalid)
        ELSE LET state == attach(request.header, utcnow)
             IN  IF state.token_payload.raised
                 THEN Outcome("Crashed", HTTP_500_INTERNAL_SERVER_ERROR, FALSE, FALSE,
                              state.user_id, state.token_payload)
                 ELSE IF state.user_id = PyNone
                 THEN Outcome("Rejected", HTTP_401_UNAUTHORIZED, TRUE, FALSE,
                              state.user_id, state.token_payload)
                 ELSE Outcome("ProtectedAuthenticated", 0, FALSE, TRUE,
                              state.user_id, state.token_payload)

\* what a dependency of the handler did: nothing yet, returned a value, or
\* raised an HTTPException
NoDependency ==
    [called |-> FALSE, raised |-> FALSE, status |-> 0, www_authenticate |-> FALSE,
     value |-> PyNone]
DependencyReturned(uid) == [NoDependency EXCEPT !.called = TRUE, !.value = uid]
DependencyRaised(status) ==
    [NoDependency EXCEPT !.called = TRUE, !.raised = TRUE, !.status = status,
                         !.www_authenticate = TRUE]

\* the mutant tests the truth of the user id instead of its presence
get_current_user_id_if_truthy(state_user_id) ==
    IF ~Truthy(Get(state_user_id)) THEN DependencyRaised(HTTP_401_UNAUTHORIZED)
    ELSE DependencyReturned(Get(state_user_id))

\* lines 111-120; state_user_id is request.state.user_id, PyAbsent when it
\* was never set
get_current_user_id(state_user_id) ==
    LET uid == Get(state_user_id)
    IN  IF uid = PyNone THEN DependencyRaised(HTTP_401_UNAUTHORIZED)
        ELSE DependencyReturned(uid)

\* lines 123-127
require_authenticated_user(state_user_id) == get_current_user_id(state_user_id)

-----------------------------------------------------------------------------
(* The middleware as a state machine: one pass per request *)

NoOutcome == Outcome("Unclassified", 0, FALSE, FALSE, PyAbsent, Invalid)
Idle == [pc |-> "idle", request |-> HttpRequest("GET", Root, NoHeader), at |-> 0,
         outcome |-> NoOutcome, dependency |-> NoDependency, response_headers |-> {}]

\* main.py create_app: the middleware in the order of the add_middleware
\* calls; the one added last is the outermost and sees the request first
Middleware == <<"SecurityHeadersMiddleware", "JWTAuthMiddleware", "CORSMiddleware">>

\* the layer that made the response: the route inside every middleware, or
\* a middleware that answered without call_next
Route == 0
LayerOf(name) == CHOOSE i \in DOMAIN Middleware : Middleware[i] = name

\* the middleware a response made by `layer` passes on its way out: those
\* added after it
PassedOnTheWayOut(layer) == {Middleware[i] : i \in {j \in DOMAIN Middleware : j > layer}}

\* security.py lines 31-50: the headers SecurityHeadersMiddleware sets on
\* the response call_next gave it
SecurityHeaders ==
    {"X-Content-Type-Options", "X-Frame-Options", "X-XSS-Protection",
     "Referrer-Policy", "Strict-Transport-Security", "X-DNS-Prefetch-Control",
     "X-Download-Options"}

\* the headers of a response that was made by `layer` with the headers
\* `own`, when it leaves the application
headers_sent(layer, own) ==
    own \cup (IF "SecurityHeadersMiddleware" \in PassedOnTheWayOut(layer)
              THEN SecurityHeaders ELSE {})

\* the headers of the JSONResponse of lines 90-97
UnauthorizedHeaders(outcome) ==
    IF outcome.www_authenticate THEN {"WWW-Authenticate"} ELSE {}

InitGate ==
    /\ clock = StartClock
    /\ gate = Idle

\* time passes between requests; dispatch reads the clock when it runs
Tick ==
    /\ gate.pc = "idle"
    /\ clock < EndClock
    /\ clock' = clock + 1
    /\ UNCHANGED gate
    /\ UNCHANGED outsideGate

\* a request arrives
Receive ==
    /\ gate.pc = "idle"
    /\ \E request \in HttpRequests :
          gate' = [pc |-> "Unclassified", request |-> request, at |-> 0,
                   outcome |-> NoOutcome, dependency |-> NoDependency,
                   response_headers |-> {}]
    /\ UNCHANGED clock
    /\ UNCHANGED outsideGate

\* JWTAuthMiddleware.dispatch runs on it
Dispatch ==
    /\ gate.pc = "Unclassified"
    /\ LET outcome == dispatch(gate.request, clock)
       IN  gate' = [gate EXCEPT
                      !.pc = "done", !.at = clock, !.outcome = outcome,
                      !.response_headers =
                          IF outcome.handler_called THEN {}
                          ELSE headers_sent(LayerOf("JWTAuthMiddleware"),
                                            UnauthorizedHeaders(outcome))]
    /\ UNCHANGED clock
    /\ UNCHANGED outsideGate

\* call_next: the handler runs and asks its dependency for the user id the
\* middleware left in request.state
Handle ==
    /\ gate.pc = "done"
    /\ gate.outcome.handler_called
    /\ ~gate.dependency.called
    /\ LET dependency == require_authenticated_user(gate.outcome.user_id)
       IN  gate' = [gate EXCEPT
                      !.dependency = dependency,
                      !.response_headers =
                          headers_sent(Route,
                                       IF dependency.www_authenticate
                                       THEN {"WWW-Authenticate"} ELSE {})]
    /\ UNCHANGED clock
    /\ UNCHANGED outsideGate

\* a handler run in an application without the middleware: request.state has
\* no user_id when the dependency reads it
HandleUnguarded ==
    /\ gate.pc = "idle"
    /\ \E request \in HttpRequests :
          gate' = [pc |-> "unguarded", request |-> request, at |-> clock,
                   outcome |-> NoOutcome,
                   dependency |-> get_current_user_id(PyAbsent),
                   response_headers |-> {}]
    /\ UNCHANGED clock
    /\ UNCHANGED outsideGate

\* the response is sent; nothing of the request is kept
Respond ==
    /\ gate.pc \in {"done", "unguarded"}
    /\ gate' = Idle
    /\ UNCHANGED clock
    /\ UNCHANGED outsideGate

NextGate == Tick \/ Receive \/ Dispatch \/ Handle \/ HandleUnguarded \/ Respond

-----------------------------------------------------------------------------
(* utils/rate_limiter.py: RateLimiter *)

NumThreads == 2
NumKeys == 2
MaxRequests == 2
MaxWindow == 1

Threads == 1..NumThreads
Keys == 1..NumKeys
NoThread == 0

\* the limiter instances of the module
Limiters == {"rate_limiter", "login_attempts_limiter", "registration_limiter"}

\* the (max_requests, window_size) pairs tried; window_size is in seconds
Policies == [max_requests : 1..MaxRequests, window_size : 1..MaxWindow]

\* the shared limiter is followed until just after the longest window that
\* started with the first call has run out
LimiterEnd == StartClock + Seconds(MaxWindow) + 1

\* the mutant also purges the entry that is exactly window_size old
RECURSIVE RemoveOutdatedInclusive(_, _)
RemoveOutdatedInclusive(deque, window_start) ==
    IF deque # <<>> /\ Head(deque) <= window_start
    THEN RemoveOutdatedInclusive(Tail(deque), window_start)
    ELSE deque

\* while self.requests[key] and self.requests[key][0] < window_start: popleft()
RECURSIVE RemoveOutdated(_, _)
RemoveOutdated(deque, window_start) ==
    IF deque # <<>> /\ Head(deque) < window_start
    THEN RemoveOutdated(Tail(deque), window_start)
    ELSE deque

\* the mutant admits one request too many
UnderLimitOffByOne(count, max_requests) == count <= max_requests

\* len(self.requests[key]) < max_requests
UnderLimit(count, max_requests) == count < max_requests

\* the mutant records the rejected request as well
RejectedRecords(deque, current_time) == Append(deque, current_time)

\* line 52: return False leaves the deque as the purge left it
Rejected(deque, current_time) == deque

\* is_allowed(key, max_requests, window_size) run in one piece at current_time:
\* the deque it leaves and the value it returns
is_allowed(deque, max_requests, window_size, current_time) ==
    LET window_start == current_time - Seconds(window_size)
        kept == RemoveOutdated(deque, window_start)
    IN  IF UnderLimit(Len(kept), max_requests)
        THEN [deque |-> Append(kept, current_time), allowed |-> TRUE]
        ELSE [deque |-> Rejected(kept, current_time), allowed |-> FALSE]

\* the mutant counts the window from the newest entry
get_reset_time_from_newest(deque, window_size, current_time) ==
    IF deque = <<>> THEN current_time
    ELSE deque[Len(deque)] + Seconds(window_size)

\* get_reset_time(key, window_size) at current_time
get_reset_time(deque, window_size, current_time) ==
    IF deque = <<>> THEN current_time ELSE Head(deque) + Seconds(window_size)

-----------------------------------------------------------------------------
(* RateLimiter.is_allowed, statement by statement, called from several threads *)

\* the limiter the threads share
Shared == "rate_limiter"

\* the mutant is a lock that excludes nobody
LockAvailableAlways(holder) == TRUE

\* with self.lock: the lock can be taken when no thread holds it
LockAvailable(holder) == holder = NoThread

IdleThread == [pc |-> "idle", key |-> 1, current_time |-> 0, before |-> <<>>,
               result |-> FALSE]

NoBatch == [live |-> FALSE, free |-> [k \in Keys |-> 0], called |-> {},
            together |-> {}, admitted |-> [k \in Keys |-> 0]]

\* the slots of key k that are free at the clock's reading
FreeSlots(k) ==
    policy.max_requests
        - Len(RemoveOutdated(requests[Shared][k], clock - Seconds(policy.window_size)))

InitLimiter ==
    /\ requests = [l \in Limiters |-> [k \in Keys |-> <<>>]]
    /\ lock = [l \in Limiters |-> NoThread]
    /\ thr = [t \in Threads |-> IdleThread]
    /\ admitted = [k \in Keys |-> <<>>]
    /\ batch = NoBatch

\* thread t calls is_allowed(k, ...) and reaches `with self.lock`
Call(t) ==
    /\ thr[t].pc = "idle"
    /\ \E k \in Keys :
        /\ thr' = [thr EXCEPT ![t] = [IdleThread EXCEPT !.pc = "waiting", !.key = k]]
        /\ batch' = IF batch.live
                    THEN [batch EXCEPT
                            !.called = @ \cup {k},
                            !.together = IF \E u \in Threads :
                                               /\ thr[u].pc \notin {"idle", "done"}
                                               /\ thr[u].key = k
                                         THEN @ \cup {k} ELSE @]
                    ELSE [live |-> TRUE, free |-> [j \in Keys |-> FreeSlots(j)],
                          called |-> {k}, together |-> {},
                          admitted |-> [j \in Keys |-> 0]]
    /\ UNCHANGED <<clock, requests, lock, policy, admitted>>
    /\ UNCHANGED outsideLimiter

\* lines 37-39: the lock is taken and the clock read
Acquire(t) ==
    /\ thr[t].pc = "waiting"
    /\ LockAvailable(lock[Shared])
    /\ lock' = [lock EXCEPT ![Shared] = t]
    /\ thr' = [thr EXCEPT ![t].pc = "purge", ![t].current_time = clock,
                           ![t].before = requests[Shared][thr[t].key]]
    /\ UNCHANGED <<clock, requests, policy, admitted, batch>>
    /\ UNCHANGED outsideLimiter

\* lines 42-43: one turn of the purge loop
Purge(t) ==
    /\ thr[t].pc = "purge"
    /\ LET k == thr[t].key
           window_start == thr[t].current_time - Seconds(policy.window_size)
       IN  IF requests[Shared][k] # <<>> /\ Head(requests[Shared][k]) < window_start
           THEN /\ requests' = [requests EXCEPT ![Shared][k] = Tail(@)]
                /\ UNCHANGED thr
           ELSE /\ thr' = [thr EXCEPT ![t].pc = "check"]
                /\ UNCHANGED requests
    /\ UNCHANGED <<clock, lock, policy, admitted, batch>>
    /\ UNCHANGED outsideLimiter

\* line 46: the limit is tested
Check(t) ==
    /\ thr[t].pc = "check"
    /\ thr' = [thr EXCEPT ![t].pc =
                  IF UnderLimit(Len(requests[Shared][thr[t].key]), policy.max_requests)
                  THEN "append" ELSE "reject"]
    /\ UNCHANGED <<clock, requests, lock, policy, admitted, batch>>
    /\ UNCHANGED outsideLimiter

\* lines 48-49: the request is recorded, True returned and the lock released
Admit(t) ==
    /\ thr[t].pc = "append"
    /\ LET k == thr[t].key
       IN  /\ requests' = [requests EXCEPT ![Shared][k] = Append(@, thr[t].current_time)]
           /\ admitted' = [admitted EXCEPT ![k] = Append(@, thr[t].current_time)]
           /\ batch' = IF batch.live
                       THEN [batch EXCEPT !.admitted[k] =
                                IF @ <= policy.max_requests THEN @ + 1 ELSE @]
                       ELSE batch
    /\ thr' = [thr EXCEPT ![t] = [IdleThread EXCEPT !.pc = "done", !.key = thr[t].key,
                                                    !.result = TRUE]]
    /\ lock' = [lock EXCEPT ![Shared] = NoThread]
    /\ UNCHANGED <<clock, policy>>
    /\ UNCHANGED outsideLimiter

\* line 52: False is returned and the lock released
Reject(t) ==
    /\ thr[t].pc = "reject"
    /\ requests' = [requests EXCEPT
                        ![Shared][thr[t].key] = Rejected(@, thr[t].current_time)]
    /\ thr' = [thr EXCEPT ![t] = [IdleThread EXCEPT !.pc = "done", !.key = thr[t].key]]
    /\ lock' = [lock EXCEPT ![Shared] = NoThread]
    /\ UNCHANGED <<clock, policy, admitted, batch>>
    /\ UNCHANGED outsideLimiter

\* the caller has used the result
Return(t) ==
    /\ thr[t].pc = "done"
    /\ thr' = [thr EXCEPT ![t] = IdleThread]
    /\ batch' = IF \A u \in Threads \ {t} : thr[u].pc = "idle" THEN NoBatch ELSE batch
    /\ UNCHANGED <<clock, requests, lock, policy, admitted>>
    /\ UNCHANGED outsideLimiter

\* time.time() advances; the calls in progress no longer share one instant
TimePasses ==
    /\ clock < LimiterEnd
    /\ clock' = clock + 1
    /\ batch' = IF batch.live THEN [NoBatch EXCEPT !.live = TRUE] ELSE batch
    /\ UNCHANGED <<requests, lock, thr, policy, admitted>>
    /\ UNCHANGED outsideLimiter

NextLimiter ==
    \/ \E t \in Threads :
          Call(t) \/ Acquire(t) \/ Purge(t) \/ Check(t) \/ Admit(t) \/ Reject(t)
              \/ Return(t)
    \/ TimePasses

-----------------------------------------------------------------------------
(* utils/rate_limiter.py: AuthRateLimiter, and api/auth.py: login *)

LOGIN_ATTEMPTS_LIMIT == 5
LOGIN_WINDOW_SIZE == 900
REGISTRATION_LIMIT == 2
REGISTRATION_WINDOW_SIZE == 3600
PASSWORD_RESET_LIMIT == 3
PASSWORD_RESET_WINDOW_SIZE == 3600

MaxDrift == 1
NumClients == 1

\* the rate limit keys of the clients that log in
ClientKeys == 1..NumClients

HTTP_429_TOO_MANY_REQUESTS == 429
HTTP_400_BAD_REQUEST == 400

\* the parameters is_login_allowed passes to its limiter
LoginPolicy == [max_requests |-> LOGIN_ATTEMPTS_LIMIT, window_size |-> LOGIN_WINDOW_SIZE]

\* the instants at which the endpoint is exercised: around the start and around
\* one window later
LoginTimes ==
    {StartClock + a + b * Seconds(LOGIN_WINDOW_SIZE) : a \in 0..MaxDrift, b \in 0..1}

\* what authenticate_user finds: a user, no user, or a user who is not active
Credentials == {"valid", "invalid", "inactive"}

\* the emails of the requests
Emails == {"a@b.c", "d@e.f"}

\* the addresses the headers of a request can name; the connections followed
\* come from the addresses in ClientKeys
Addresses == Keys

\* `if not is_allowed: raise HTTPException(429, ...)`: the handler goes on to
\* its next statement only when the request was admitted
raise_unless_allowed_skipped(allowed, next) == next

raise_unless_allowed(allowed, next) == IF allowed THEN next ELSE "reset"

\* AuthService.get_user_by_email: the rows with this email
get_user_by_email(rows, email) == {u \in rows : u = email}

\* AuthService.create_user: the row is added and committed
create_user(rows, email) == rows \cup {email}

\* AuthService.authenticate_user: no user for an email without account,
\* whatever the password
authenticate_user(rows, email, credentials) ==
    IF get_user_by_email(rows, email) = {} THEN "invalid" ELSE credentials

\* the rate limit headers of a response: none, or X-RateLimit-Reset and
\* Retry-After, both the decimal writing of an integer
NoRateLimitHeaders == [present |-> FALSE, X_RateLimit_Reset |-> 0, Retry_After |-> 0]

\* int(x) of a time or time difference x given in ticks: the whole seconds,
\* rounded towards zero
int(ticks) ==
    IF ticks >= 0 THEN ticks \div TicksPerSecond ELSE -((-ticks) \div TicksPerSecond)

\* lines 170-187, called when the clock reads `now`; a reset_time of None is 0
get_rate_limit_headers(allowed, reset_time, now) ==
    IF reset_time # 0
    THEN [present |-> TRUE, X_RateLimit_Reset |-> int(reset_time),
          Retry_After |-> int(reset_time - now)]
    ELSE NoRateLimitHeaders

NoLogin == [pc |-> "idle", endpoint |-> "login", key |-> 1, email |-> "a@b.c",
            credentials |-> "valid", at |-> 0, allowed |-> FALSE, reset_time |-> 0,
            store |-> "untouched", status |-> 0, headers |-> NoRateLimitHeaders]

NoCalls == [n |-> 0, first |-> 0, late |-> 0, refused |-> FALSE, at |-> 0,
            allowed |-> FALSE]
NoPosts == [n |-> 0, first |-> 0, at |-> 0]

\* the history of is_allowed calls after one more call
Called(c, at, allowed) ==
    LET first == IF c.n = 0 THEN at ELSE c.first
    IN  [n |-> IF c.n <= LOGIN_ATTEMPTS_LIMIT + 1 THEN c.n + 1 ELSE c.n,
         first |-> first,
         late |-> IF at > first + Seconds(LOGIN_WINDOW_SIZE) /\ c.late < 2
                  THEN c.late + 1 ELSE c.late,
         refused |-> c.refused
                        \/ (~allowed /\ at <= first + Seconds(LOGIN_WINDOW_SIZE)),
         at |-> at, allowed |-> allowed]

\* the history of login requests after one more request
Posted(p, at) ==
    [n |-> IF p.n <= LOGIN_ATTEMPTS_LIMIT + 1 THEN p.n + 1 ELSE p.n,
     first |-> IF p.n = 0 THEN at ELSE p.first,
     at |-> at]

InitLogin ==
    /\ login = NoLogin
    /\ calls = [k \in ClientKeys |-> NoCalls]
    /\ posts = [k \in ClientKeys |-> NoPosts]
    /\ users = {"a@b.c"}
    /\ admissions = [h \in ClientKeys |-> <<>>]

\* login_attempts_limiter.is_allowed(key, LOGIN_ATTEMPTS_LIMIT, LOGIN_WINDOW_SIZE)
login_is_allowed(key) ==
    is_allowed(requests["login_attempts_limiter"][key], LOGIN_ATTEMPTS_LIMIT,
               LOGIN_WINDOW_SIZE, clock)

\* a POST /auth/login arrives from the client whose rate limit key is k
LoginArrives ==
    /\ login.pc = "idle"
    /\ \E k \in ClientKeys, e \in Emails, c \in Credentials :
          login' = [NoLogin EXCEPT !.pc = "limit", !.endpoint = "login", !.key = k,
                                  !.email = e, !.credentials = c]
    /\ UNCHANGED <<clock, requests, calls, posts, users, admissions>>
    /\ UNCHANGED outsideLogin

\* auth.py line 88 and rate_limiter.py lines 105-109: the admission check
LoginLimit ==
    /\ login.pc = "limit"
    /\ login.endpoint = "login"
    /\ LET r == login_is_allowed(login.key)
       IN  /\ requests' = [requests EXCEPT !["login_attempts_limiter"][login.key] = r.deque]
           /\ calls' = [calls EXCEPT ![login.key] = Called(@, clock, r.allowed)]
           /\ posts' = [posts EXCEPT ![login.key] = Posted(@, clock)]
           /\ login' = [login EXCEPT !.pc = raise_unless_allowed(r.allowed, "auth"),
                                     !.at = clock, !.allowed = r.allowed]
    /\ UNCHANGED <<clock, users, admissions>>
    /\ UNCHANGED outsideLogin

\* rate_limiter.py lines 111-116: the reset time is read
LoginLimited ==
    /\ login.pc = "reset"
    /\ login.endpoint = "login"
    /\ login' = [login EXCEPT
                    !.pc = "headers",
                    !.reset_time = get_reset_time(
                        requests["login_attempts_limiter"][login.key],
                        LOGIN_WINDOW_SIZE, clock)]
    /\ UNCHANGED <<clock, requests, calls, posts, users, admissions>>
    /\ UNCHANGED outsideLogin

\* auth.py lines 39-44 and 89-94: the request is answered 429 with the headers
\* get_rate_limit_headers makes of the reset time
TooManyRequests ==
    /\ login.pc = "headers"
    /\ login' = [login EXCEPT
                    !.pc = "done",
                    !.status = HTTP_429_TOO_MANY_REQUESTS,
                    !.headers = get_rate_limit_headers(FALSE, login.reset_time, clock)]
    /\ UNCHANGED <<clock, requests, calls, posts, users, admissions>>
    /\ UNCHANGED outsideLogin

\* a POST /auth/register arrives from the client whose rate limit key is k,
\* for an email that has an account already or has none
RegisterArrives ==
    /\ login.pc = "idle"
    /\ \E k \in ClientKeys, e \in Emails :
          login' = [NoLogin EXCEPT !.pc = "limit", !.endpoint = "register", !.key = k,
                                  !.email = e]
    /\ UNCHANGED <<clock, requests, calls, posts, users, admissions>>
    /\ UNCHANGED outsideLogin

\* auth.py line 38 and rate_limiter.py lines 130-134: the admission check
RegisterLimit ==
    /\ login.pc = "limit"
    /\ login.endpoint = "register"
    /\ LET r == is_allowed(requests["registration_limiter"][login.key],
                           REGISTRATION_LIMIT, REGISTRATION_WINDOW_SIZE, clock)
       IN  /\ requests' = [requests EXCEPT !["registration_limiter"][login.key] = r.deque]
           /\ login' = [login EXCEPT !.pc = raise_unless_allowed(r.allowed, "create"),
                                     !.at = clock, !.allowed = r.allowed]
    /\ UNCHANGED <<clock, calls, posts, users, admissions>>
    /\ UNCHANGED outsideLogin

\* rate_limiter.py lines 136-141: the reset time is read
RegisterLimited ==
    /\ login.pc = "reset"
    /\ login.endpoint = "register"
    /\ login' = [login EXCEPT
                    !.pc = "headers",
                    !.reset_time = get_reset_time(
                        requests["registration_limiter"][login.key],
                        REGISTRATION_WINDOW_SIZE, clock)]
    /\ UNCHANGED <<clock, requests, calls, posts, users, admissions>>
    /\ UNCHANGED outsideLogin

\* auth.py lines 46-68: 400 for an email that has an account, else the user
\* is created and a token returned
RegisterCreate ==
    /\ login.pc = "create"
    /\ LET existing_user == get_user_by_email(users, login.email)
       IN  IF existing_user # {}
           THEN /\ login' = [login EXCEPT !.pc = "done", !.store = "read",
                                          !.status = HTTP_400_BAD_REQUEST]
                /\ UNCHANGED users
           ELSE /\ login' = [login EXCEPT !.pc = "done", !.store = "written",
                                          !.status = HTTP_200_OK]
                /\ users' = create_user(users, login.email)
    /\ UNCHANGED <<clock, requests, calls, posts, admissions>>
    /\ UNCHANGED outsideLogin

\* auth.py lines 96-149: the credential check and what follows it
LoginAuthenticate ==
    /\ login.pc = "auth"
    /\ IF authenticate_user(users, login.email, login.credentials) = "invalid"
       THEN LET r == login_is_allowed(login.key)
            IN  /\ requests' = [requests EXCEPT
                                   !["login_attempts_limiter"][login.key] = r.deque]
                /\ calls' = [calls EXCEPT ![login.key] = Called(@, clock, r.allowed)]
                /\ login' = [login EXCEPT !.pc = "done", !.store = "read",
                                          !.status = HTTP_401_UNAUTHORIZED]
       ELSE /\ login' = [login EXCEPT
                            !.pc = "done", !.store = "read",
                            !.status = IF login.credentials = "inactive"
                                       THEN HTTP_401_UNAUTHORIZED ELSE HTTP_200_OK]
            /\ UNCHANGED <<requests, calls>>
    /\ UNCHANGED <<clock, posts, users, admissions>>
    /\ UNCHANGED outsideLogin

\* login_attempts_limiter.get_reset_time(key, LOGIN_WINDOW_SIZE) called on its
\* own, whatever the key has stored
ResetTime ==
    /\ login.pc = "idle"
    /\ \E k \in ClientKeys :
          login' = [NoLogin EXCEPT
                      !.pc = "read", !.key = k, !.at = clock,
                      !.reset_time = get_reset_time(
                          requests["login_attempts_limiter"][k],
                          LOGIN_WINDOW_SIZE, clock)]
    /\ UNCHANGED <<clock, requests, calls, posts, users, admissions>>
    /\ UNCHANGED outsideLogin

\* the response has been sent
LoginResponds ==
    /\ login.pc \in {"done", "read"}
    /\ login' = NoLogin
    /\ UNCHANGED <<clock, requests, calls, posts, users, admissions>>
    /\ UNCHANGED outsideLogin

\* time.time() moves on to a later instant
Elapse ==
    /\ \E t \in LoginTimes :
          /\ t > clock
          /\ clock' = t
    /\ UNCHANGED <<requests, login, calls, posts, users, admissions>>
    /\ UNCHANGED outsideLogin

NextLogin ==
    \/ LoginArrives
    \/ LoginLimit
    \/ LoginLimited
    \/ TooManyRequests
    \/ LoginAuthenticate
    \/ ResetTime
    \/ LoginResponds
    \/ Elapse

\* the instants at which the two endpoints are followed: the start, the last
\* instant before the login window of the start closes, and a second after
\* it has closed
EndpointTimes ==
    {StartClock, StartClock + Seconds(LOGIN_WINDOW_SIZE) - 1,
     StartClock + Seconds(LOGIN_WINDOW_SIZE) + Seconds(1)}

\* time.time() moves on to a later instant, between two requests or between
\* two statements of a handler
EndpointElapse ==
    /\ \E t \in EndpointTimes :
          /\ t > clock
          /\ clock' = t
    /\ UNCHANGED <<requests, login, calls, posts, users, admissions>>
    /\ UNCHANGED outsideLogin

\* POST /auth/login and POST /auth/register
NextEndpoints ==
    \/ LoginArrives
    \/ LoginLimit
    \/ LoginLimited
    \/ LoginAuthenticate
    \/ RegisterArrives
    \/ RegisterLimit
    \/ RegisterLimited
    \/ RegisterCreate
    \/ TooManyRequests
    \/ LoginResponds
    \/ EndpointElapse

-----------------------------------------------------------------------------
(* utils/rate_limiter.py get_client_ip and get_rate_limit_key; api/auth.py: the key of a login *)

\* admitted logins followed per client connection
MaxAdmissions == 6

\* a header of the request: the items between its commas
HeaderValue(items) == [t |-> "header", items |-> items]

\* X-Forwarded-For as a client can send it: absent, empty, one address or two
ForwardedFors ==
    {PyNone, HeaderValue(<<>>)} \cup {HeaderValue(<<a>>) : a \in Addresses}
        \cup {HeaderValue(<<a, b>>) : a \in Addresses, b \in Addresses}

\* X-Real-IP as a client can send it: absent, empty or one address
RealIps == {PyNone, HeaderValue(<<>>)} \cup {HeaderValue(<<a>>) : a \in Addresses}

\* `if header:` is false for a missing header and for an empty one
HeaderGiven(header) == header # PyNone /\ Len(header.items) > 0

\* the first address of X-Forwarded-For, else X-Real-IP, else the address of
\* the connection (request.client is set for every connection followed here)
get_client_ip(forwarded_for, real_ip, host) ==
    IF HeaderGiven(forwarded_for) THEN Head(forwarded_for.items)
    ELSE IF HeaderGiven(real_ip) THEN Head(real_ip.items)
    ELSE host

\* the first 16 hex digits of sha256(identifier:endpoint): distinct
\* identifiers have distinct keys, which are not the identifiers
get_rate_limit_key(identifier, endpoint) == NumKeys + 1 - identifier

\* auth.py lines 84-94: a POST /auth/login arrives over the connection of
\* address host with the headers the client chose; the key is made from
\* get_client_ip and the admission check is done under that key
LoginFrom ==
    /\ login.pc = "idle"
    /\ \E host \in ClientKeys, forwarded_for \in ForwardedFors, real_ip \in RealIps,
          e \in users, c \in {"valid", "inactive"} :
          LET client_ip == get_client_ip(forwarded_for, real_ip, host)
              rate_limit_key == get_rate_limit_key(client_ip, "login")
              r == login_is_allowed(rate_limit_key)
          IN  /\ Len(admissions[host]) < MaxAdmissions
              /\ requests' = [requests EXCEPT
                                 !["login_attempts_limiter"][rate_limit_key] = r.deque]
              /\ admissions' = [admissions EXCEPT
                                   ![host] = IF r.allowed THEN Append(@, clock) ELSE @]
              /\ login' = [NoLogin EXCEPT
                              !.pc = raise_unless_allowed(r.allowed, "auth"),
                              !.endpoint = "login", !.key = rate_limit_key,
                              !.email = e, !.credentials = c,
                              !.at = clock, !.allowed = r.allowed]
    /\ UNCHANGED <<clock, calls, posts, users>>
    /\ UNCHANGED outsideLogin

NextClientAddress ==
    \/ LoginFrom
    \/ LoginLimited
    \/ TooManyRequests
    \/ LoginAuthenticate
    \/ LoginResponds
    \/ Elapse

(* utils/rate_limiter.py: the three admission checks of AuthRateLimiter *)

\* the instants at which the checks are made: the start, just after the end
\* of the login window, the end of the hour and just after it
AuthTimes ==
    {StartClock, StartClock + Seconds(LOGIN_WINDOW_SIZE) + 1}
        \cup {StartClock + Seconds(REGISTRATION_WINDOW_SIZE) + a : a \in 0..MaxDrift}

\* limiter.is_allowed(identifier, limit, window) and, when it refuses,
\* limiter.get_reset_time(identifier, window); the result is the pair
\* returned (a reset_time of 0 stands for None) and the limiters afterwards
checked(reqs, limiter, identifier, limit, window, now) ==
    LET r == is_allowed(reqs[limiter][identifier], limit, window, now)
    IN  [requests |-> [reqs EXCEPT ![limiter][identifier] = r.deque],
         is_allowed |-> r.allowed,
         reset_time |-> IF r.allowed THEN 0
                        ELSE get_reset_time(r.deque, window, now)]

is_login_allowed(reqs, identifier, now) ==
    checked(reqs, "login_attempts_limiter", identifier,
            LOGIN_ATTEMPTS_LIMIT, LOGIN_WINDOW_SIZE, now)

is_registration_allowed(reqs, identifier, now) ==
    checked(reqs, "registration_limiter", identifier,
            REGISTRATION_LIMIT, REGISTRATION_WINDOW_SIZE, now)

\* the mutant keeps the password resets in the limiter of the logins
is_password_reset_allowed_in_login_limiter(reqs, identifier, now) ==
    checked(reqs, "login_attempts_limiter", identifier,
            PASSWORD_RESET_LIMIT, PASSWORD_RESET_WINDOW_SIZE, now)

\* lines 145-168: the password resets are kept in the module's rate_limiter
is_password_reset_allowed(reqs, identifier, now) ==
    checked(reqs, "rate_limiter", identifier,
            PASSWORD_RESET_LIMIT, PASSWORD_RESET_WINDOW_SIZE, now)

\* one of the three checks is made for an identifier
Checked(endpoint, key, result) ==
    /\ requests' = result.requests
    /\ login' = [NoLogin EXCEPT !.pc = "checked", !.endpoint = endpoint, !.key = key,
                                !.at = clock, !.allowed = result.is_allowed,
                                !.reset_time = result.reset_time]
    /\ UNCHANGED <<clock, calls, posts, users, admissions>>
    /\ UNCHANGED outsideLogin

CheckLogin ==
    \E k \in ClientKeys : Checked("login", k, is_login_allowed(requests, k, clock))

CheckRegistration ==
    \E k \in ClientKeys :
        Checked("registration", k, is_registration_allowed(requests, k, clock))

CheckPasswordReset ==
    \E k \in ClientKeys :
        Checked("password_reset", k, is_password_reset_allowed(requests, k, clock))

\* time.time() moves on to a later instant
AuthElapse ==
    /\ \E t \in AuthTimes :
          /\ t > clock
          /\ clock' = t
    /\ UNCHANGED <<requests, login, calls, posts, users, admissions>>
    /\ UNCHANGED outsideLogin

NextAuthLimiter ==
    CheckLogin \/ CheckRegistration \/ CheckPasswordReset \/ AuthElapse

-----------------------------------------------------------------------------
(* lib/jwt_utils.py called directly: issue, verify, extract *)

NoCall == [pc |-> "idle", data |-> NoClaims, expires_delta |-> NoDelta,
           token |-> CHOOSE t \in MalformedTokens : t.dots = 0,
           issued_at |-> 0, at |-> 0, result |-> Invalid, user_id |-> Returned(PyNone)]

InitCodec == codec = NoCall

\* create_access_token(data, expires_delta) is called
Issue ==
    /\ codec.pc = "idle"
    /\ \E data \in ClaimSets, expires_delta \in Deltas :
          codec' = [NoCall EXCEPT
                       !.pc = "issued", !.data = data, !.expires_delta = expires_delta,
                       !.issued_at = clock,
                       !.token = create_access_token(data, expires_delta, clock)]
    /\ UNCHANGED clock
    /\ UNCHANGED outsideCodec

\* verify_token is called on the token just issued
VerifyIssued ==
    /\ codec.pc = "issued"
    /\ codec' = [codec EXCEPT !.pc = "verified", !.at = clock,
                              !.result = verify_token(codec.token, clock)]
    /\ UNCHANGED clock
    /\ UNCHANGED outsideCodec

\* verify_token and get_user_id_from_token are called on a token from anywhere
Extract ==
    /\ codec.pc = "idle"
    /\ \E token \in Tokens :
          codec' = [NoCall EXCEPT
                       !.pc = "extracted", !.token = token, !.at = clock,
                       !.result = verify_token(token, clock),
                       !.user_id = get_user_id_from_token(token, clock)]
    /\ UNCHANGED clock
    /\ UNCHANGED outsideCodec

\* the caller has used the result
Forget ==
    /\ codec.pc \in {"verified", "extracted"}
    /\ codec' = NoCall
    /\ UNCHANGED clock
    /\ UNCHANGED outsideCodec

\* datetime.utcnow() advances
CodecTick ==
    /\ codec.pc \in {"idle", "issued"}
    /\ clock < EndClock
    /\ clock' = clock + 1
    /\ UNCHANGED codec
    /\ UNCHANGED outsideCodec

NextCodec == Issue \/ VerifyIssued \/ Extract \/ Forget \/ CodecTick

-----------------------------------------------------------------------------
(* api/tasks.py: update_task and update_task_status statement by statement, *)
(* in one request's session, while other requests commit in between        *)

NoSession ==
    [pc |-> "idle", op |-> "none", task_id |-> 0, current_user_id |-> 0,
     update_data |-> <<>>, resource |-> {}, committed |-> FALSE, raised |-> "nothing",
     resp |-> Response(HTTP_200_OK, NoDetail, {})]

InitSession == session = NoSession

\* the request bodies of the two handlers, as the update_data built from them
\* (tasks.py lines 164-171 and line 224)
UpdateDataOf(op) ==
    IF op = "update_task" THEN TaskUpdates
    ELSE {[is_completed |-> b.is_completed] : b \in TaskPatches}

\* the handler up to the lookup of update_user_resource (service lines 122-127)
BeginUpdate ==
    /\ session.pc = "idle"
    /\ \E op \in {"update_task", "update_task_status"}, u \in UrlUserIds, c \in UserIds,
          t \in TaskIds :
          \E update_data \in BodiesFor(UpdateDataOf(op), u, c) :
             LET resource == get_single_user_resource(tasks, t, c)
                 called == [NoSession EXCEPT !.op = op, !.task_id = t,
                                             !.current_user_id = c,
                                             !.update_data = update_data]
             IN  session' =
                    IF u # c THEN [called EXCEPT !.pc = "done", !.resp = UrlMismatch]
                    ELSE IF resource = {}
                    THEN [called EXCEPT !.pc = "done", !.resp = TaskMissing]
                    ELSE [called EXCEPT !.pc = "found", !.resource = resource]
    /\ UNCHANGED <<storeVars, outsideSession>>

\* an exception no handler catches
ServerError == Response(HTTP_500_INTERNAL_SERVER_ERROR, NoDetail, {})

\* the UPDATE of the flush writes the attributes that got a new value, and
\* updated_at, into the row with the primary key of the resource
flush(rows, before, after, utcnow) ==
    {IF r.id = before.id
     THEN [f \in DOMAIN r |->
              IF f = "updated_at" THEN utcnow
              ELSE IF after[f] # before[f] THEN after[f]
              ELSE r[f]]
     ELSE r : r \in rows}

\* service lines 129-135: setattr, add and commit. The UPDATE of a row that
\* another request has deleted matches nothing, and the flush raises
\* StaleDataError
CommitUpdate ==
    /\ session.pc = "found"
    /\ LET before == CHOOSE r \in session.resource : TRUE
           after == ApplyPatch(before, session.update_data)
       IN  IF after = before
           THEN /\ session' = [session EXCEPT !.pc = "committed", !.committed = TRUE]
                /\ UNCHANGED tasks
           ELSE IF \A r \in tasks : r.id # before.id
           THEN /\ session' = [session EXCEPT !.pc = "done",
                                               !.raised = "StaleDataError",
                                               !.resp = ServerError]
                /\ UNCHANGED tasks
           ELSE /\ tasks' = flush(tasks, before, after, clock)
                /\ session' = [session EXCEPT !.pc = "committed", !.committed = TRUE,
                                               !.resource = {after}]
    /\ UNCHANGED <<task_seq, last, outsideSession>>

\* service line 136: db_session.refresh(resource) reads the row again, and
\* raises InvalidRequestError when it is gone
RefreshResource ==
    /\ session.pc = "committed"
    /\ LET row == {r \in tasks : r.id = session.task_id}
       IN  session' = IF row = {}
                      THEN [session EXCEPT !.pc = "done",
                                           !.raised = "InvalidRequestError",
                                           !.resp = ServerError]
                      ELSE [session EXCEPT !.pc = "refreshed", !.resource = row]
    /\ UNCHANGED <<storeVars, outsideSession>>

\* tasks.py lines 183-189: the handler queries the task again and returns what
\* the query gives: the object the session holds, or None when the row is gone
reread(rows, resource, resource_id, user_id) ==
    IF get_single_user_resource(rows, resource_id, user_id) = {} THEN {} ELSE resource

ReturnUpdated ==
    /\ session.pc = "refreshed"
    /\ session' =
          [session EXCEPT
              !.pc = "done",
              !.resp = Response(HTTP_200_OK, NoDetail,
                                reread(tasks, session.resource, session.task_id,
                                       session.current_user_id))]
    /\ UNCHANGED <<storeVars, outsideSession>>

\* the response is sent and the session closed
CloseSession ==
    /\ session.pc = "done"
    /\ session' = NoSession
    /\ UNCHANGED <<storeVars, outsideSession>>

\* the requests of other clients commit in between: this session sees what
\* they leave in the table, not their responses
OtherCreates ==
    \E c \in UserIds, d \in TaskCreates :
        /\ task_seq < MaxTasks
        /\ tasks' = create_task(tasks, task_seq, c, d, c, clock).rows
        /\ task_seq' = task_seq + 1
        /\ UNCHANGED <<last, session, outsideSession>>

OtherUpdates ==
    \E c \in UserIds, t \in TaskIds, d \in TaskPatches :
        /\ tasks' = update_task_status(tasks, c, t, d, c, clock).rows
        /\ tasks' # tasks
        /\ UNCHANGED <<task_seq, last, session, outsideSession>>

OtherDeletes ==
    \E c \in UserIds, t \in TaskIds :
        /\ tasks' = delete_task(tasks, c, t, c).rows
        /\ tasks' # tasks
        /\ UNCHANGED <<task_seq, last, session, outsideSession>>

NextConcurrentUpdate ==
    \/ BeginUpdate \/ CommitUpdate \/ RefreshResource \/ ReturnUpdated \/ CloseSession
    \/ OtherCreates \/ OtherUpdates \/ OtherDeletes

-----------------------------------------------------------------------------
(* config/auth_config.py and main.py: the start of the server process *)

\* an environment value whose characters matter is a string of one-character
\* strings; os.getenv gives None for a variable that is not set
MinSecretLength == 32
SecretLengths == {0, 5, MinSecretLength - 1, MinSecretLength, MinSecretLength + 9}
Secrets == {PyNone} \cup {PyStr([i \in 1..n |-> "k"]) : n \in SecretLengths}

SupportedAlgorithms == {"HS256", "HS384", "HS512"}
Algorithms ==
    {PyNone} \cup {PyStr(a) : a \in SupportedAlgorithms \cup {"RS256", "none", "hs256", ""}}

DefaultExpiration == 1440
Expirations ==
    {PyNone, PyStr(<<>>), PyStr(<<"0">>), PyStr(<<"-", "1">>), PyStr(<<"a">>),
     PyStr(<<"1", ".", "5">>), PyStr(<<"3", "0">>), PyStr(<<" ", "5">>),
     PyStr(<<"+", "7">>), PyStr(<<"0", "0">>), PyStr(<<" ">>), PyStr(<<"-">>)}

Environments ==
    [BETTER_AUTH_SECRET : Secrets, JWT_ALGORITHM : Algorithms,
     JWT_EXPIRATION_DELTA : Expirations]

\* os.getenv(key, default)
getenv(value, default) == IF value = PyNone THEN default ELSE value

\* "not value" for a value of the environment: None and "" are false
IsFalsy(value) == value = PyNone \/ Len(value.s) = 0

Digits == {"0", "1", "2", "3", "4", "5", "6", "7", "8", "9"}
DigitValue(c) ==
    CASE c = "0" -> 0 [] c = "1" -> 1 [] c = "2" -> 2 [] c = "3" -> 3 [] c = "4" -> 4
      [] c = "5" -> 5 [] c = "6" -> 6 [] c = "7" -> 7 [] c = "8" -> 8 [] c = "9" -> 9

\* str.strip(): the whitespace at both ends goes
RECURSIVE strip(_)
strip(text) ==
    IF text = <<>> THEN text
    ELSE IF Head(text) = " " THEN strip(Tail(text))
    ELSE IF text[Len(text)] = " " THEN strip(SubSeq(text, 1, Len(text) - 1))
    ELSE text

RECURSIVE DecimalValue(_)
DecimalValue(digits) ==
    IF digits = <<>> THEN 0
    ELSE 10 * DecimalValue(SubSeq(digits, 1, Len(digits) - 1))
            + DigitValue(digits[Len(digits)])

ValueError == [raised |-> "ValueError"]
NoError == [raised |-> "nothing"]

\* int(x): an int is itself; a string is an optional sign and decimal digits
\* between optional whitespace, and anything else is a ValueError
int_of(value) ==
    IF value.t = "int" THEN value
    ELSE LET text == strip(value.s)
             signed == text # <<>> /\ Head(text) \in {"+", "-"}
             digits == IF signed THEN Tail(text) ELSE text
         IN  IF digits # <<>> /\ \A i \in 1..Len(digits) : digits[i] \in Digits
             THEN PyInt(IF signed /\ Head(text) = "-"
                        THEN 0 - DecimalValue(digits) ELSE DecimalValue(digits))
             ELSE ValueError

\* AuthConfig._validate_secret_key, lines 22-55
validate_secret_key(environ) ==
    LET secret == environ.BETTER_AUTH_SECRET
    IN  IF IsFalsy(secret) THEN ValueError
        ELSE IF Len(secret.s) < MinSecretLength THEN ValueError
        ELSE NoError

\* AuthConfig.__init__, lines 17-20, run by the import of the module (line 81)
AuthConfig(environ) ==
    IF validate_secret_key(environ) = ValueError THEN ValueError
    ELSE IF int_of(getenv(environ.JWT_EXPIRATION_DELTA, PyInt(DefaultExpiration)))
                = ValueError
         THEN ValueError
         ELSE NoError

\* the mutant accepts any algorithm
validate_startup_configuration_any_algorithm(environ) ==
    IF validate_secret_key(environ) = ValueError THEN ValueError
    ELSE LET expiration == environ.JWT_EXPIRATION_DELTA
         IN  IF IsFalsy(expiration) THEN NoError
             ELSE IF int_of(expiration) = ValueError THEN ValueError
             ELSE IF int_of(expiration).n <= 0 THEN ValueError
             ELSE NoError

\* lines 147-169
validate_startup_configuration(environ) ==
    IF validate_secret_key(environ) = ValueError THEN ValueError
    ELSE IF getenv(environ.JWT_ALGORITHM, PyStr("HS256")).s \notin SupportedAlgorithms
         THEN ValueError
    ELSE LET expiration == environ.JWT_EXPIRATION_DELTA
         IN  IF IsFalsy(expiration) THEN NoError
             ELSE IF int_of(expiration) = ValueError THEN ValueError
             ELSE IF int_of(expiration).n <= 0 THEN ValueError
             ELSE NoError

\* the requests the started process is followed through
MaxServed == 2

\* lib/jwt_utils.py line 8: the key used when the variable is not set,
\* "your-32-character-secret-key-here"
DefaultSecretLength == 33
DefaultSecret == PyStr([i \in 1..DefaultSecretLength |-> "y"])

\* what a .env file in the working directory says about the secret
DotenvSecrets ==
    {PyNone, PyStr([i \in 1..5 |-> "e"]), PyStr([i \in 1..MinSecretLength |-> "e"])}

\* load_dotenv(): a variable of the file is set unless the environment has it
load_dotenv(environ, dotenv) ==
    IF environ.BETTER_AUTH_SECRET = PyNone
    THEN [environ EXCEPT !.BETTER_AUTH_SECRET = dotenv]
    ELSE environ

\* the claims the started process issues a token for
StartupClaims == [NoClaims EXCEPT !.sub = PyStr("1"), !.user_id = PyInt(1)]

\* the keys a presented token may have been signed with
PresentedKeys == {secret.s : secret \in (Secrets \cup DotenvSecrets \cup {DefaultSecret}) \ {PyNone}}

NoConfigurationCheck == [is_valid |-> FALSE, message |-> "<not called>"]
NoJwtCall ==
    [op |-> "none", token |-> create_access_token_under(<<>>, StartupClaims, NoDelta, 0),
     verified |-> FALSE, check |-> NoConfigurationCheck]

\* the mutant reads the environment at every call
secret_key_in_use_from_environment(loaded, environ) ==
    getenv(environ.BETTER_AUTH_SECRET, DefaultSecret)

\* jwt_utils lines 64 and 79: the functions use the module's SECRET_KEY
secret_key_in_use(loaded, environ) == loaded

\* config/auth_config.py lines 87-114, on the secret the global auth_config holds
verify_shared_secret_configuration(secret) ==
    IF IsFalsy(secret)
    THEN [is_valid |-> FALSE, message |-> "JWT_SECRET is not set or empty"]
    ELSE IF Len(secret.s) < MinSecretLength
    THEN [is_valid |-> FALSE, message |-> "JWT_SECRET is too short (minimum 32 characters)"]
    ELSE [is_valid |-> TRUE, message |-> ""]

\* start_environ records the environment as the process found it
Launched(environ, dotenv) ==
    [pc |-> "start", environ |-> environ, dotenv |-> dotenv,
     start_environ |-> environ, SECRET_KEY |-> PyNone,
     auth_config |-> PyNone, raised |-> "nothing", exit_status |-> PyNone,
     routes |-> FALSE, served |-> 0, call |-> NoJwtCall]

\* the environment of the process is the one the tests set up
TestEnvironment ==
    [BETTER_AUTH_SECRET |-> PyStr([i \in 1..(MinSecretLength + 9) |-> "k"]),
     JWT_ALGORITHM |-> PyNone, JWT_EXPIRATION_DELTA |-> PyNone]

InitStartup == process = Launched(TestEnvironment, PyNone)

\* the process ends on an exception nobody catches, or on sys.exit(1)
Exit(exception) ==
    [process EXCEPT !.pc = "exited", !.raised = exception, !.exit_status = PyInt(1)]

\* main.py line 5 imports the middleware, which imports lib.jwt_utils
\* (auth_middleware.py line 6): SECRET_KEY is read from the environment
ImportJwtUtils ==
    /\ process.pc = "start"
    /\ process' = [process EXCEPT
                      !.pc = "loaded",
                      !.SECRET_KEY = getenv(process.environ.BETTER_AUTH_SECRET,
                                            DefaultSecret)]
    /\ UNCHANGED outsideStartup

\* main.py line 8: the import of config.auth_config reads the .env file and
\* builds the global auth_config; its ValueError is caught by nobody and ends
\* the interpreter
ImportConfig ==
    /\ process.pc = "loaded"
    /\ LET environ == load_dotenv(process.environ, process.dotenv)
       IN  process' = IF AuthConfig(environ) = ValueError
                      THEN [Exit("ValueError") EXCEPT !.environ = environ]
                      ELSE [process EXCEPT !.pc = "imported", !.environ = environ,
                                           !.auth_config = environ.BETTER_AUTH_SECRET]
    /\ UNCHANGED outsideStartup

\* create_app, lines 23-26 and 35-38
ValidateStartup ==
    /\ process.pc = "imported"
    /\ process' = IF validate_startup_configuration(process.environ) = ValueError
                  THEN Exit("ValueError")
                  ELSE [process EXCEPT !.pc = "validated"]
    /\ UNCHANGED outsideStartup

\* create_app, lines 28-34 and 39-42: the database answers or it does not
SyncSchema ==
    /\ process.pc = "validated"
    /\ \E reachable \in BOOLEAN :
          process' = IF reachable THEN [process EXCEPT !.pc = "synced"]
                     ELSE Exit("Exception")
    /\ UNCHANGED outsideStartup

\* create_app, lines 44-192: the application, its middleware and its routes
RegisterRoutes ==
    /\ process.pc = "synced"
    /\ process' = [process EXCEPT !.pc = "serving", !.routes = TRUE]
    /\ UNCHANGED outsideStartup

\* the server answers a request
ServeRequest ==
    /\ process.pc = "serving"
    /\ process.served < MaxServed
    /\ process' = [process EXCEPT !.served = @ + 1]
    /\ UNCHANGED outsideStartup

\* os.environ["BETTER_AUTH_SECRET"] is assigned or removed in the running process
Setenv ==
    /\ process.pc = "serving"
    /\ \E secret \in Secrets :
          /\ secret # process.environ.BETTER_AUTH_SECRET
          /\ process' = [process EXCEPT !.environ.BETTER_AUTH_SECRET = secret]
    /\ UNCHANGED outsideStartup

\* create_access_token(data) is called in the running process
IssueToken ==
    /\ process.pc = "serving"
    /\ LET key == secret_key_in_use(process.SECRET_KEY, process.environ)
       IN  process' = [process EXCEPT
                          !.call = [NoJwtCall EXCEPT
                                       !.op = "issue",
                                       !.token = create_access_token_under(
                                                     key.s, StartupClaims, NoDelta, clock)]]
    /\ UNCHANGED outsideStartup

\* verify_token(token) is called in the running process
VerifyToken ==
    /\ process.pc = "serving"
    /\ \E signed_with \in PresentedKeys :
          LET key == secret_key_in_use(process.SECRET_KEY, process.environ)
              token == create_access_token_under(signed_with, StartupClaims, NoDelta, clock)
          IN  process' = [process EXCEPT
                             !.call = [NoJwtCall EXCEPT
                                          !.op = "verify",
                                          !.token = token,
                                          !.verified =
                                              verify_token_under(key.s, token, clock).valid]]
    /\ UNCHANGED outsideStartup

\* verify_shared_secret_configuration() is called in the running process
VerifySharedSecret ==
    /\ process.pc = "serving"
    /\ process' = [process EXCEPT
                      !.call = [NoJwtCall EXCEPT
                                   !.op = "check",
                                   !.check = verify_shared_secret_configuration(
                                                 process.auth_config)]]
    /\ UNCHANGED outsideStartup

NextStartup ==
    \/ ImportJwtUtils \/ ImportConfig \/ ValidateStartup \/ SyncSchema
    \/ RegisterRoutes \/ ServeRequest
    \/ Setenv \/ IssueToken \/ VerifyToken \/ VerifySharedSecret

-----------------------------------------------------------------------------
(* todo-phase-1: services/task_manager.py TaskManager and cli/handlers.py *)

\* the console application is followed until it has created this many tasks
MaxCliTasks == 2

\* what the user types at the title prompt and at the task ID prompt
TitleInputs == {<<"a">>, <<" ", "b", " ">>, <<" ">>}
TaskIdInputs == {<<"1">>, <<" ", "2">>, <<"3">>, <<"x">>, <<>>}

\* TaskManager.__init__: _tasks, as the set of its values, and _next_id
NewTaskManager == [tasks |-> {}, next_id |-> 1]

\* what a TaskManager method returns, with the manager it leaves
Returns(manager, success, message) ==
    [manager |-> manager, success |-> success, message |-> message]

\* TaskManager.create
create(manager, title, description) ==
    IF strip(title) = <<>> THEN Returns(manager, FALSE, "Title cannot be empty.")
    ELSE Returns([tasks |-> manager.tasks \cup
                              {[id |-> manager.next_id, title |-> strip(title),
                                description |-> description, is_complete |-> FALSE]},
                  next_id |-> manager.next_id + 1],
                 TRUE, "created successfully")

\* TaskManager.get_by_id: the task of this id, if there is one
get_by_id(manager, task_id) == {task \in manager.tasks : task.id = task_id}

\* TaskManager.toggle_complete
toggle_complete(manager, task_id) ==
    IF get_by_id(manager, task_id) = {}
    THEN Returns(manager, FALSE, "does not exist")
    ELSE LET task == CHOOSE t \in get_by_id(manager, task_id) : TRUE
             toggled == [task EXCEPT !.is_complete = ~task.is_complete]
         IN  Returns([manager EXCEPT !.tasks = (@ \ {task}) \cup {toggled}], TRUE,
                     IF toggled.is_complete THEN "marked as complete"
                     ELSE "marked as incomplete")

\* TaskManager.delete
delete(manager, task_id) ==
    IF get_by_id(manager, task_id) = {} THEN Returns(manager, FALSE, "does not exist")
    ELSE Returns([manager EXCEPT !.tasks = @ \ get_by_id(manager, task_id)], TRUE,
                 "deleted successfully")

\* the menu option handled last: what was typed, the id int() made of it, the
\* status the task had before, and what the handler printed
Handled(option, task_id, before, success, message) ==
    [option |-> option, task_id |-> task_id, before |-> before, success |-> success,
     message |-> message]
NothingHandled == Handled("none", PyNone, {}, FALSE, "")

InitCli == cli = [task_manager |-> NewTaskManager, handled |-> NothingHandled]

\* `task_id = int(task_id_input)` of the stripped input
task_id_of(task_id_input) == int_of(PyStr(strip(task_id_input)))

\* `except ValueError`: the error is printed and the handler returns
invalid_task_id(option, manager) ==
    [task_manager |-> manager,
     handled |-> Handled(option, PyNone, {}, FALSE, "Invalid task ID format.")]

\* the result r of the TaskManager method is printed
displayed(option, manager, task_id, r) ==
    [task_manager |-> r.manager,
     handled |-> Handled(option, task_id,
                         {t.is_complete : t \in get_by_id(manager, task_id.n)},
                         r.success, r.message)]

\* handle_complete_task, menu option 5
handle_complete_task(manager, task_id_input) ==
    LET task_id == task_id_of(task_id_input)
    IN  IF task_id = ValueError THEN invalid_task_id("Mark Task Complete", manager)
        ELSE displayed("Mark Task Complete", manager, task_id,
                       toggle_complete(manager, task_id.n))

\* handle_incomplete_task, menu option 6
handle_incomplete_task(manager, task_id_input) ==
    LET task_id == task_id_of(task_id_input)
    IN  IF task_id = ValueError THEN invalid_task_id("Mark Task Incomplete", manager)
        ELSE displayed("Mark Task Incomplete", manager, task_id,
                       toggle_complete(manager, task_id.n))

\* handle_delete_task, menu option 4
handle_delete_task(manager, task_id_input) ==
    LET task_id == task_id_of(task_id_input)
    IN  IF task_id = ValueError THEN invalid_task_id("Delete Task", manager)
        ELSE displayed("Delete Task", manager, task_id, delete(manager, task_id.n))

\* handle_create_task, menu option 1
HandleCreateTask ==
    /\ cli.task_manager.next_id <= MaxCliTasks
    /\ \E title_input \in TitleInputs :
          LET title == strip(title_input)
          IN  IF title = <<>>
              THEN cli' = [cli EXCEPT !.handled = Handled("Create Task", PyNone, {}, FALSE,
                                                          "Title cannot be empty.")]
              ELSE LET r == create(cli.task_manager, title, <<>>)
                   IN  cli' = [task_manager |-> r.manager,
                               handled |-> Handled("Create Task", PyNone, {}, r.success,
                                                   r.message)]
    /\ UNCHANGED outsideCli

HandleCompleteTask ==
    /\ \E task_id_input \in TaskIdInputs :
          cli' = handle_complete_task(cli.task_manager, task_id_input)
    /\ UNCHANGED outsideCli

HandleIncompleteTask ==
    /\ \E task_id_input \in TaskIdInputs :
          cli' = handle_incomplete_task(cli.task_manager, task_id_input)
    /\ UNCHANGED outsideCli

HandleDeleteTask ==
    /\ \E task_id_input \in TaskIdInputs :
          cli' = handle_delete_task(cli.task_manager, task_id_input)
    /\ UNCHANGED outsideCli

NextCli ==
    \/ HandleCreateTask
    \/ HandleCompleteTask
    \/ HandleIncompleteTask
    \/ HandleDeleteTask

-----------------------------------------------------------------------------
(* Specifications *)

Init ==
    InitStore /\ InitGate /\ InitLimiter /\ InitLogin /\ InitCodec /\ InitStartup
        /\ InitSession /\ InitCli
        /\ policy = LoginPolicy

\* the limiter exercised with each of the small policies
InitThreads ==
    InitStore /\ InitGate /\ InitLimiter /\ InitLogin /\ InitCodec /\ InitStartup
        /\ InitSession /\ InitCli
        /\ policy \in Policies

\* the process started under each of the environments
InitEnvironments ==
    InitStore /\ InitGate /\ InitLimiter /\ InitLogin /\ InitCodec /\ InitSession
        /\ InitCli
        /\ policy = LoginPolicy
        /\ process \in {Launched(environ, dotenv) :
                           environ \in Environments, dotenv \in DotenvSecrets}

\* the task store and its API
Next == NextStore

Spec == Init /\ [][Next]_vars

MaxStoreTicks == 1
StoreEnd == StartClock + MaxStoreTicks

\* time passes between two requests to the store
StoreTick ==
    /\ clock < StoreEnd
    /\ clock' = clock + 1
    /\ UNCHANGED <<storeVars, gate, limiterVars, loginVars, codecVars, startupVars,
                   sessionVars, cliVars>>

\* the writes of the store with time passing between them
NextTimedStore ==
    CreateTask \/ UpdateTask \/ SvcUpdate \/ StoreTick

SpecTimedStore == Init /\ [][NextTimedStore]_vars

SpecAuthLimiter == Init /\ [][NextAuthLimiter]_vars

SpecEndpoints == Init /\ [][NextEndpoints]_vars

\* the JWT middleware
SpecGate == Init /\ [][NextGate]_vars

\* the rate limiter under concurrent callers
SpecLimiter == InitThreads /\ [][NextLimiter]_vars

\* POST /auth/login behind the login limiter
SpecLogin == Init /\ [][NextLogin]_vars

\* the token functions of jwt_utils
SpecCodec == Init /\ [][NextCodec]_vars

\* PUT and PATCH of a task among the requests of other clients
SpecConcurrentUpdate == Init /\ [][NextConcurrentUpdate]_vars

\* the start of the server process
SpecStartup == InitEnvironments /\ [][NextStartup]_vars

\* POST /auth/login keyed by the address get_client_ip finds
SpecClientAddress == Init /\ [][NextClientAddress]_vars

\* the console application of phase 1
SpecCli == Init /\ [][NextCli]_vars

-----------------------------------------------------------------------------
(* Claims about the owner-scoped store *)

NotFoundWords == <<"not", "found">>

MentionsForbidden(detail) ==
    \E i \in 1..Len(detail) : detail[i] \in {"forbidden", "Forbidden", "FORBIDDEN"}

RowIds(rows) == {t.id : t \in rows}

\* C2: for a task R of owner A and any other principal B, the owner-scoped
\* lookup of R by B finds nothing, and GET /api/B/tasks/R is answered exactly
\* as GET /api/B/tasks/N for an id N of no task: 404, a detail that says
\* "not found" and does not say "forbidden".
C2_NonOwnerSeesNotFound ==
    /\ \A r \in tasks : \A b \in UserIds \ {r.user_id} :
        /\ get_single_user_resource(tasks, r.id, b) = {}
        /\ \A n \in TaskIds \ RowIds(tasks) :
              get_task(tasks, b, r.id, b).resp = get_task(tasks, b, n, b).resp
        /\ get_task(tasks, b, r.id, b).resp.status = HTTP_404_NOT_FOUND
        /\ Contains(get_task(tasks, b, r.id, b).resp.detail, NotFoundWords)
        /\ ~MentionsForbidden(get_task(tasks, b, r.id, b).resp.detail)
    /\ (/\ last.req.op = "get_task"
        /\ last.req.user_id = last.req.current_user_id
        /\ \E r \in tasks : /\ r.id = last.req.task_id
                            /\ r.user_id # last.req.current_user_id)
       => last.resp = TaskMissing

\* a principal has just asked for another owner's existing task and got 404
C2_Witness ==
    /\ last.req.op = "get_task"
    /\ last.req.user_id = last.req.current_user_id
    /\ \E r \in tasks : r.id = last.req.task_id /\ r.user_id # last.req.current_user_id
    /\ last.resp.status = HTTP_404_NOT_FOUND

OwnerScopedOps ==
    {"get_tasks", "create_task", "get_task", "update_task", "update_task_status",
     "delete_task", "get_user_by_id"}

\* C3: on every owner-scoped endpoint a request whose URL user id is not the
\* principal's is answered 404 "not found", as for a missing resource, and
\* never 403.
C3_UrlMismatchIsNotFound ==
    (last.req.op \in OwnerScopedOps /\ last.req.user_id # last.req.current_user_id)
        => /\ last.resp.status = HTTP_404_NOT_FOUND
           /\ Contains(last.resp.detail, NotFoundWords)

ServiceWrites == {"update_user_resource", "delete_user_resource"}

\* C4: update_user_resource and delete_user_resource called with a user id
\* that does not own the target return False and leave the table as it was:
\* every owner still reads each of its resources with all attributes unchanged.
C4_NonOwnerWriteChangesNothing ==
    [][(/\ last'.req.op \in ServiceWrites
        /\ get_single_user_resource(tasks, last'.req.task_id,
                                    last'.req.current_user_id) = {})
       => /\ ~last'.ok
          /\ tasks' = tasks
          /\ \A r \in tasks : get_single_user_resource(tasks', r.id, r.user_id) = {r}]_vars

\* a service write has just been refused on an existing task of another owner
C4_Witness ==
    /\ last.req.op \in ServiceWrites
    /\ ~last.ok
    /\ \E r \in tasks : r.id = last.req.task_id /\ r.user_id # last.req.current_user_id

\* C24: after any sequence of creates, updates and deletes by any principals,
\* get_user_owned_resources(model, ownerId) returns exactly the stored
\* resources whose owner attribute equals ownerId: every one of them and no
\* resource of any other owner
C24_ListIsExactlyTheOwnedRows ==
    last.req.op = "get_user_owned_resources" =>
        /\ \A t \in tasks : t.user_id = last.req.user_id => t \in last.resp.body
        /\ \A t \in last.resp.body : t \in tasks /\ t.user_id = last.req.user_id

\* the rows of one owner have been listed while the table held a row of
\* another owner as well
C24_Witness ==
    /\ last.req.op = "get_user_owned_resources"
    /\ last.resp.body # {}
    /\ \E t \in tasks : t.user_id # last.req.user_id

\* the update_data with which the step is a successful update: those of the
\* PUT bodies, or of the dictionaries handed to the service, that take the
\* table and the request of the step to the table and the answer after it
UpdatesOfStep ==
    IF ~last'.ok \/ last'.req.op \notin {"update_task", "update_user_resource"} THEN {}
    ELSE IF tasks' = tasks /\ last' = last THEN {}
    ELSE IF last'.req.op = "update_task"
    THEN {d \in TaskUpdates :
            /\ \A t \in last'.resp.body : \A f \in DOMAIN d : t[f] = d[f]
            /\ update_task(tasks, last'.req.user_id, last'.req.task_id, d,
                           last'.req.current_user_id, clock)
                 = Served(tasks', last'.resp)}
    ELSE {d \in UpdateDicts :
            /\ \A t \in tasks' : \A f \in DOMAIN d \cap TaskFields :
                  t.id = last'.req.task_id => t[f] = d[f]
            /\ update_user_resource(tasks, last'.req.task_id, last'.req.current_user_id,
                                    d, clock)
                 = [ok |-> TRUE, rows |-> tasks']}

\* the step leaves every row but the updated one as it was, and in the
\* updated one every attribute outside `touched`
OnlyChanges(touched) ==
    LET target == {t \in tasks : t.id = last'.req.task_id}
        after == {t \in tasks' : t.id = last'.req.task_id}
    IN  /\ tasks \ target = tasks' \ after
        /\ \A t \in target : \E a \in after :
              /\ after = {a}
              /\ \A f \in DOMAIN t \ touched : a[f] = t[f]

\* C25 as stated: a successful update_user_resource changes only the
\* attributes named in the patch; every other attribute of the resource and
\* every other resource keeps its prior value, and a PUT that omits a field
\* leaves that field unchanged
C25_OnlyPatchedAttributesChange ==
    [][\A d \in UpdatesOfStep : OnlyChanges(DOMAIN d)]_vars

\* C25 amended: a successful update_user_resource changes only the attributes
\* named in the patch and the row's updated_at, which the store sets to the
\* time of the update; every other attribute of the resource and every other
\* resource keeps its prior value, and a PUT that omits a field leaves that
\* field unchanged
C25_OnlyPatchedAttributesAndUpdatedAtChange ==
    [][\A d \in UpdatesOfStep : OnlyChanges(DOMAIN d \cup {"updated_at"})]_vars

\* a PUT has given a completed task of user 1 another title some time after
\* the task was made, while user 2 has a task as well
C25_Witness ==
    /\ last.req.op = "update_task"
    /\ last.ok
    /\ last.req.current_user_id = 1
    /\ \E t \in tasks :
          /\ t.id = last.req.task_id
          /\ t.title = "b"
          /\ t.is_completed
          /\ t.updated_at > StartClock
    /\ \E t \in tasks : t.user_id = 2

-----------------------------------------------------------------------------
(* Claims about the middleware and the token codec *)

\* the path dispatch classifies: trailing slashes stripped, "/" kept
Normalized(path) == IF rstrip(path) = <<>> THEN Root ELSE rstrip(path)

Served401 ==
    /\ gate.outcome.status = HTTP_401_UNAUTHORIZED
    /\ gate.outcome.www_authenticate
    /\ ~gate.outcome.handler_called

\* the request in hand carries no token that authenticates it at time `at`
Unauthenticated(header, at) ==
    \/ header.scheme # "Bearer"                       \* header missing or other scheme
    \/ header.token.dots # 2                          \* not exactly two dots
    \/ ~header.token.decodable                        \* segments that do not decode
    \/ header.token.key # SECRET_KEY                  \* bad signature
    \/ header.token.sig # "ok"
    \/ header.token.alg # ALGORITHM
    \/ (/\ header.token.claims.exp.t = "int"          \* expired
        /\ at > header.token.claims.exp.n * TicksPerSecond)
    \/ verify_token(header.token, at) = Invalid       \* any other verification failure
    \/ middleware_user_id(header.token.claims) = PyNone   \* no user id

\* the verification of the token in the header ends in an exception instead
\* of a verdict (the case of C18)
VerificationRaises(header, at) ==
    /\ header.scheme = "Bearer"
    /\ is_valid_format(header.token)
    /\ verify_token(header.token, at).raised

VerifiedServerToken ==
    /\ gate.pc = "done"
    /\ gate.outcome.state # "Public"
    /\ gate.request.header.scheme = "Bearer"
    /\ gate.request.header.token.dots = 2
    /\ gate.request.header.token.decodable
    /\ gate.request.header.token.key = SECRET_KEY
    /\ gate.request.header.token.sig = "ok"
    /\ gate.request.header.token.alg = ALGORITHM
    /\ gate.request.header.token.claims.exp.t = "int"
    /\ gate.request.header.token.claims.sub.t \in {"absent", "str"}

\* C10: verify_token returns Invalid for every token with exp <= now in whole
\* seconds, the boundary exp == now included, and returns the claims of a
\* correctly signed token with exp > now.
C10_ExpiredAtOrBeforeNow ==
    VerifiedServerToken =>
        LET token == gate.request.header.token
            now == gate.at \div TicksPerSecond
            result == verify_token(token, gate.at)
        IN  /\ token.claims.exp.n <= now => ~result.valid
            /\ token.claims.exp.n > now => result = Valid(token.claims)


\* the request in hand has been through dispatch with a Bearer token of three
\* segments
BearerDone ==
    /\ gate.pc = "done"
    /\ gate.request.header.scheme = "Bearer"
    /\ gate.request.header.token.dots = 2

\* the request in hand is one the middleware protects
ProtectedRequest ==
    /\ gate.request.method # "OPTIONS"
    /\ ~is_public(Normalized(gate.request.path))

\* C11: a token whose signature segment is not the signature of its header and
\* payload under the configured secret (a bit of it changed, the payload
\* changed, or another secret used) makes verify_token return Invalid, and a
\* protected request bearing it is answered 401
C11_ForgedSignatureIsRejected ==
    (/\ BearerDone
     /\ gate.request.header.token.decodable
     /\ \/ gate.request.header.token.sig # "ok"
        \/ gate.request.header.token.key # SECRET_KEY)
    => /\ verify_token(gate.request.header.token, gate.at) = Invalid
       /\ ProtectedRequest => Served401

\* a token of user 1, not expired, whose payload was changed after signing has
\* just been rejected on a protected path
C11_Witness ==
    /\ BearerDone
    /\ gate.request.method = "GET"
    /\ gate.request.path = <<"/", "auth", "/", "me">>
    /\ gate.request.header.token.sig = "stale"
    /\ gate.request.header.token.key = SECRET_KEY
    /\ gate.request.header.token.claims.user_id = PyInt(1)
    /\ gate.request.header.token.claims.exp.t = "int"
    /\ gate.request.header.token.claims.exp.n * TicksPerSecond > gate.at
    /\ Served401

\* C12: a token without an exp claim is never accepted: verify_token returns
\* Invalid for it and a protected request bearing it is answered 401
C12_MissingExpIsRejected ==
    (/\ BearerDone
     /\ gate.request.header.token.claims.exp = PyAbsent)
    => /\ verify_token(gate.request.header.token, gate.at) = Invalid
       /\ ProtectedRequest => Served401

\* C13: the middleware never authenticates a principal whose user id is zero
\* or negative, and get_user_id_from_token never returns such a value
C13_NonPositiveUserIdIsInvalid ==
    gate.pc = "done" =>
        /\ gate.outcome.state = "ProtectedAuthenticated"
              => gate.outcome.user_id.t = "int" /\ gate.outcome.user_id.n > 0
        /\ LET extracted == get_user_id_from_token(gate.request.header.token, gate.at)
           IN  (~extracted.raised /\ extracted.value.t = "int")
                   => extracted.value.n > 0

\* a claim that names no user: absent, null, empty or not a number
NamesNoUser(claim) ==
    \/ claim \in {PyAbsent, PyNone, PyStr("")}
    \/ claim.t = "str" /\ claim.s \notin NumericStrings

NumericString(claim) == claim.t = "str" /\ claim.s \in NumericStrings

\* the token of the request in hand is signed by this server and not expired
SignedAndUnexpired ==
    /\ BearerDone
    /\ gate.request.header.token.decodable
    /\ gate.request.header.token.alg = ALGORITHM
    /\ gate.request.header.token.key = SECRET_KEY
    /\ gate.request.header.token.sig = "ok"
    /\ gate.request.header.token.claims.exp.t = "int"
    /\ gate.request.header.token.claims.exp.n * TicksPerSecond > gate.at

DeclaredPublic(path) == path \in PUBLIC_PATHS \cup PUBLIC_AUTH_PATHS

\* C19: a request to a declared public path, and every OPTIONS request, reaches
\* the downstream handler whatever its Authorization header holds; it is never
\* answered 401 and the handler sees no principal
C19_PublicIsPassedThrough ==
    (/\ gate.pc = "done"
     /\ gate.request.method = "OPTIONS" \/ DeclaredPublic(gate.request.path))
    => /\ gate.outcome.state = "Public"
       /\ gate.outcome.handler_called
       /\ gate.outcome.status # HTTP_401_UNAUTHORIZED
       /\ Get(gate.outcome.user_id) = PyNone

\* a login request carrying a token signed with another key has reached its
\* handler
C19_Witness ==
    /\ BearerDone
    /\ gate.request.method = "POST"
    /\ gate.request.path = <<"/", "auth", "/", "login">>
    /\ gate.request.header.token.decodable
    /\ gate.request.header.token.key # SECRET_KEY
    /\ gate.outcome.handler_called
    /\ gate.outcome.user_id = PyNone

\* a path without its trailing slashes
WithoutTrailingSlashes(path) ==
    LET kept == {i \in DOMAIN path : \E j \in i..Len(path) : path[j] # "/"}
    IN  SubSeq(path, 1, Cardinality(kept))

\* a path without the version prefix /api/v1
WithoutVersionPrefix(path) ==
    IF Len(path) >= 4 /\ SubSeq(path, 1, 4) = <<"/", "api", "/", "v1">>
    THEN SubSeq(path, 5, Len(path))
    ELSE path

\* C20 as stated: a path is classified Public exactly when, trailing slashes
\* and version prefix stripped, it is one of the exact public paths or one of
\* the open auth endpoints
C20_PublicIffListedAfterStripping ==
    (gate.pc = "done" /\ gate.request.method # "OPTIONS") =>
        LET bare == WithoutTrailingSlashes(gate.request.path)
            stripped == WithoutVersionPrefix(IF bare = <<>> THEN Root ELSE bare)
        IN  gate.outcome.state = "Public" <=> DeclaredPublic(stripped)

\* C20 amended: a path is classified Public exactly when, trailing slashes
\* stripped, it is one of the exact public paths, or, the version prefix
\* stripped as well, it is one of the open auth endpoints
C20_PublicIffListed ==
    (gate.pc = "done" /\ gate.request.method # "OPTIONS") =>
        LET bare == WithoutTrailingSlashes(gate.request.path)
            path == IF bare = <<>> THEN Root ELSE bare
        IN  gate.outcome.state = "Public"
                <=> \/ path \in PUBLIC_PATHS
                    \/ WithoutVersionPrefix(path) \in PUBLIC_AUTH_PATHS

\* the versioned register endpoint has been classified Public
C20_Witness ==
    /\ gate.pc = "done"
    /\ gate.request.method = "POST"
    /\ gate.request.path = <<"/", "api", "/", "v1", "/", "auth", "/", "register">>
    /\ gate.outcome.state = "Public"

\* GET /auth/me and GET /auth/{user_id}, as the request may spell them
ProfileEndpoint(path) ==
    LET bare == WithoutVersionPrefix(WithoutTrailingSlashes(path))
    IN  /\ Len(bare) = 4
        /\ SubSeq(bare, 1, 3) = <<"/", "auth", "/">>
        /\ bare[4] \in {"me", "1", "2"}

C22_HandlerOnceOr401 ==
    gate.pc = "done" =>
        /\ \/ /\ gate.outcome.state \in {"Public", "ProtectedAuthenticated"}
              /\ gate.outcome.handler_called
              /\ gate.outcome.status = 0
           \/ /\ gate.outcome.state = "Rejected"
              /\ Served401
        /\ gate.outcome.state = "ProtectedAuthenticated"
            => LET verified == verify_token(gate.request.header.token, gate.at)
               IN  /\ gate.request.header.scheme = "Bearer"
                   /\ verified.valid
                   /\ gate.outcome.user_id = middleware_user_id(verified.payload)

\* request.state.user_id as the handler of the request in hand finds it
AttachedUserId ==
    IF gate.pc = "done" THEN gate.outcome.user_id ELSE PyAbsent

\* C23: a dependency that requires authentication raises 401 with
\* WWW-Authenticate: Bearer whenever no principal is attached to the request
\* (public path, OPTIONS request, middleware not run), and otherwise returns
\* exactly the attached user id
C23_DependencyFailsClosed ==
    gate.dependency.called =>
        /\ (\/ gate.pc = "unguarded"
            \/ gate.outcome.state = "Public"
            \/ AttachedUserId \in {PyAbsent, PyNone})
            => /\ gate.dependency.raised
               /\ gate.dependency.status = HTTP_401_UNAUTHORIZED
               /\ gate.dependency.www_authenticate
        /\ AttachedUserId \notin {PyAbsent, PyNone}
            => /\ ~gate.dependency.raised
               /\ gate.dependency.value = AttachedUserId
               /\ gate.outcome.state = "ProtectedAuthenticated"

\* the handler of an OPTIONS request that carried a good token of user 1 has
\* been refused by its dependency
C23_Witness ==
    /\ gate.pc = "done"
    /\ gate.request.method = "OPTIONS"
    /\ gate.request.path = <<"/", "auth", "/", "me">>
    /\ gate.request.header.scheme = "Bearer"
    /\ verify_token(gate.request.header.token, gate.at).valid
    /\ gate.request.header.token.claims.user_id = PyInt(1)
    /\ gate.dependency.called
    /\ gate.dependency.raised

-----------------------------------------------------------------------------
(* Claims about the token functions *)

\* C15: for a verified token that carries a user_id claim and a sub claim,
\* get_user_id_from_token returns the value of the user_id claim
C15_UserIdClaimComesFirst ==
    (/\ codec.pc = "extracted"
     /\ codec.result.valid
     /\ codec.token.claims.user_id.t = "int" /\ codec.token.claims.user_id.n > 0
     /\ codec.token.claims.sub # PyAbsent)
    => codec.user_id = Returned(codec.token.claims.user_id)

\* a number that names a user: positive, as an integer or as a numeric string
NamesUser(claim) ==
    \/ claim.t = "int" /\ claim.n > 0
    \/ NumericString(claim) /\ StrToInt(claim.s) > 0

\* a claim set with a valid user id: user_id and sub, where given, name a
\* user, sub as a string, and one of them is given
ValidClaimSet(data) ==
    /\ data.user_id = PyAbsent \/ NamesUser(data.user_id)
    /\ data.sub = PyAbsent \/ (data.sub.t = "str" /\ NamesUser(data.sub))
    /\ data.user_id # PyAbsent \/ data.sub # PyAbsent

C17_EveryGivenTtlIsUsed ==
    codec.pc \in {"issued", "verified"} =>
        /\ codec.token.claims.iat = PyInt(timestamp(codec.issued_at))
        /\ codec.expires_delta.t = "timedelta"
              => codec.token.claims.exp
                     = PyInt(timestamp(codec.issued_at + codec.expires_delta.ticks))
        /\ codec.expires_delta = NoDelta
              => codec.token.claims.exp
                     = PyInt(timestamp(codec.issued_at
                           + Seconds(ACCESS_TOKEN_EXPIRE_MINUTES * SecondsPerMinute)))

\* C18: verify_token and get_user_id_from_token raise no exception, whatever
\* the token and whatever its exp claim
C18_FailureIsNeverAnException ==
    codec.pc = "extracted" => ~codec.result.raised /\ ~codec.user_id.raised

-----------------------------------------------------------------------------
(* Claims about the rate limiter *)

NoCallInProgress == \A t \in Threads : thr[t].pc \in {"idle", "done"}

\* C5: of the calls made for one key at one instant while exactly one slot of
\* the key was free, never more than one is admitted, and once the calls have
\* all returned exactly one has been admitted
C5_ExactlyOneAdmitted ==
    \A k \in Keys :
        (batch.live /\ k \in batch.called /\ batch.free[k] = 1)
            => /\ batch.admitted[k] <= 1
               /\ NoCallInProgress => batch.admitted[k] = 1

\* two calls for one key, made while one slot was free, that overlapped and have
\* both returned: one True, one False
C5_Witness ==
    \E k \in Keys : \E t, u \in Threads :
        /\ batch.live /\ batch.free[k] = 1 /\ k \in batch.together
        /\ thr[t].pc = "done" /\ thr[t].key = k /\ thr[t].result
        /\ thr[u].pc = "done" /\ thr[u].key = k /\ ~thr[u].result

\* the admitted calls of key k stamped within [t - window_size, t]
AdmittedWithin(k, t) ==
    {i \in DOMAIN admitted[k] :
        t - Seconds(policy.window_size) <= admitted[k][i] /\ admitted[k][i] <= t}

\* C6: the deque of a key never holds more than max_requests timestamps, and no
\* trailing interval [t - window_size, t] holds more than max_requests admitted
\* calls of the key
C6_AtMostMaxPerWindow ==
    \A k \in Keys :
        /\ Len(requests[Shared][k]) <= policy.max_requests
        /\ \A t \in StartClock..(LimiterEnd + Seconds(MaxWindow)) :
              Cardinality(AdmittedWithin(k, t)) <= policy.max_requests

\* a key that has been admitted more often than max_requests over time, whose
\* deque is full, and a call for it that has just been refused
C6_Witness ==
    \E k \in Keys : \E t \in Threads :
        /\ Len(admitted[k]) > policy.max_requests
        /\ Len(requests[Shared][k]) = policy.max_requests
        /\ thr[t].pc = "done" /\ thr[t].key = k /\ ~thr[t].result

\* C7: with max 5 and window 900 the calls up to the fifth made within 900 s of
\* the first return True, a sixth call within those 900 s returns False, and
\* the first call made more than 900 s after the first call returns True
C7_FiveThenRefusedThenAdmitted ==
    \A k \in ClientKeys :
        LET c == calls[k]
            within == c.at <= c.first + Seconds(LOGIN_WINDOW_SIZE)
        IN  c.n >= 1 =>
                /\ (c.n <= LOGIN_ATTEMPTS_LIMIT /\ within) => c.allowed
                /\ (c.n = LOGIN_ATTEMPTS_LIMIT + 1 /\ within) => ~c.allowed
                /\ (~within /\ c.late = 1) => c.allowed

\* a key that was refused inside its first window and whose first call after
\* the window has just been admitted
C7_Witness ==
    \E k \in ClientKeys :
        /\ calls[k].n > LOGIN_ATTEMPTS_LIMIT /\ calls[k].refused
        /\ calls[k].late = 1 /\ calls[k].allowed

\* C8: the first five POST /auth/login requests of a key made within 900 s are
\* not answered 429 whatever their credentials, and the sixth is
C8_FiveLoginsAdmitted ==
    \A k \in ClientKeys :
        (/\ login.pc = "done" /\ login.key = k
         /\ posts[k].at <= posts[k].first + Seconds(LOGIN_WINDOW_SIZE))
            => /\ posts[k].n <= LOGIN_ATTEMPTS_LIMIT
                    => login.status # HTTP_429_TOO_MANY_REQUESTS
               /\ posts[k].n = LOGIN_ATTEMPTS_LIMIT + 1
                    => login.status = HTTP_429_TOO_MANY_REQUESTS

\* the instants from which a later call on the shared limiter can be made
LaterInstants(from) == from..(LimiterEnd + Seconds(MaxWindow) + 1)

\* C9: a call that returns False leaves the deque of its key equal to the
\* deque before the call without the entries older than now - window_size, and
\* leaves unchanged, for every later instant, whether a call would be admitted
C9_RefusedCallRecordsNothing ==
    [][\A t \in Threads :
          (thr[t].pc = "reject" /\ thr'[t].pc = "done") =>
              LET k == thr[t].key
                  now == thr[t].current_time
                  kept == RemoveOutdated(thr[t].before,
                                         now - Seconds(policy.window_size))
                  admits(deque, at) ==
                      is_allowed(deque, policy.max_requests, policy.window_size,
                                 at).allowed
              IN  /\ requests'[Shared][k] = kept
                  /\ \A at \in LaterInstants(now) :
                        admits(requests'[Shared][k], at) = admits(thr[t].before, at)]_vars

\* two calls for one key have both been refused and the deque is still full
C9_Witness ==
    \E k \in Keys : \E t, u \in Threads :
        /\ t # u
        /\ thr[t].pc = "done" /\ thr[t].key = k /\ ~thr[t].result
        /\ thr[u].pc = "done" /\ thr[u].key = k /\ ~thr[u].result
        /\ Len(requests[Shared][k]) = policy.max_requests

\* C26: get_reset_time(k, w) returns the oldest timestamp stored for k plus w,
\* and the current time when k has no stored entries; after exactly max
\* admitted calls with no time elapsed it is the first call's timestamp + w
C26_ResetIsOldestPlusWindow ==
    login.pc = "read" =>
        LET stored == requests["login_attempts_limiter"][login.key]
            c == calls[login.key]
        IN  /\ stored = <<>> => login.reset_time = login.at
            /\ stored # <<>> =>
                  /\ \A i \in DOMAIN stored : stored[i] >= stored[1]
                  /\ login.reset_time = stored[1] + Seconds(LOGIN_WINDOW_SIZE)
            /\ (c.n = LOGIN_ATTEMPTS_LIMIT /\ ~c.refused /\ login.at = c.first)
                  => login.reset_time = c.first + Seconds(LOGIN_WINDOW_SIZE)

\* the reset time of a key has been read while the key held entries of two
\* different instants
C26_Witness ==
    /\ login.pc = "read"
    /\ LET stored == requests["login_attempts_limiter"][login.key]
       IN  /\ Len(stored) >= 2
           /\ stored[Len(stored)] > stored[1]
    /\ login.reset_time > login.at

\* C27: whenever is_login_allowed rejects a request at time now, the reset
\* time it returns satisfies now < resetTime <= now + window (900 s for
\* login), whatever happens between the admission check and the reading of
\* the reset time
C27_ResetTimeIsAheadWithinWindow ==
    (login.pc = "done" /\ login.status = HTTP_429_TOO_MANY_REQUESTS)
        => /\ login.at < login.reset_time
           /\ login.reset_time <= login.at + Seconds(LOGIN_WINDOW_SIZE)

\* the limiter that holds the attempts of a check, and the policy the checks
\* are stated to enforce: 5 per 900 s, 2 per 3600 s, 3 per 3600 s
LimiterOf(endpoint) ==
    CASE endpoint = "login" -> "login_attempts_limiter"
      [] endpoint = "registration" -> "registration_limiter"
      [] endpoint = "password_reset" -> "rate_limiter"

StatedPolicy(endpoint) ==
    CASE endpoint = "login" -> [max_requests |-> 5, window_size |-> 900]
      [] endpoint = "registration" -> [max_requests |-> 2, window_size |-> 3600]
      [] endpoint = "password_reset" -> [max_requests |-> 3, window_size |-> 3600]

\* the result a check for identifier k would have at instant t with the
\* limiters as they are in `reqs`
WouldAdmit(reqs, endpoint, k, t) ==
    CASE endpoint = "login" -> is_login_allowed(reqs, k, t).is_allowed
      [] endpoint = "registration" -> is_registration_allowed(reqs, k, t).is_allowed
      [] endpoint = "password_reset" -> is_password_reset_allowed(reqs, k, t).is_allowed

\* C28: the login, registration and password-reset checks enforce 5 per
\* 900 s, 2 per 3600 s and 3 per 3600 s, and for one and the same
\* identifier a call to one of the three never changes the admission results
\* of the other two
C28_ThreeIndependentLimiters ==
    [][(login'.pc = "checked" /\ (login' # login \/ requests' # requests)) =>
        LET stated == StatedPolicy(login'.endpoint)
            before == requests[LimiterOf(login'.endpoint)][login'.key]
            inside == {i \in DOMAIN before :
                         before[i] >= clock - Seconds(stated.window_size)}
        IN  /\ login'.allowed <=> Cardinality(inside) < stated.max_requests
            /\ \A other \in {"login", "registration", "password_reset"} \ {login'.endpoint} :
                  \A t \in AuthTimes :
                     t >= clock =>
                        WouldAdmit(requests', other, login'.key, t)
                            = WouldAdmit(requests, other, login'.key, t)
       ]_vars

\* the identifier is refused a third registration while its logins and its
\* password resets, two of each made before, are still admitted
C28_Witness ==
    /\ login.pc = "checked"
    /\ login.endpoint = "registration"
    /\ ~login.allowed
    /\ Len(requests["login_attempts_limiter"][login.key]) = 2
    /\ Len(requests["rate_limiter"][login.key]) = 2
    /\ WouldAdmit(requests, "login", login.key, clock)
    /\ WouldAdmit(requests, "password_reset", login.key, clock)

\* C29: POST /auth/login and POST /auth/register answer 429 exactly when the
\* limiter rejects the request, and that response carries X-RateLimit-Reset,
\* the reset time, and Retry-After, a non-negative number of seconds until
\* it; a response to an admitted request carries neither header
C29_LimitedIffRejectedWithHeaders ==
    login.pc = "done" =>
        /\ login.status = HTTP_429_TOO_MANY_REQUESTS <=> ~login.allowed
        /\ ~login.allowed =>
              /\ login.headers.present
              /\ login.headers.X_RateLimit_Reset = int(login.reset_time)
              /\ login.headers.Retry_After >= 0
        /\ login.allowed => ~login.headers.present

\* C30: under a configuration whose BETTER_AUTH_SECRET is absent, empty or
\* shorter than 32 characters, whose JWT_ALGORITHM is set to something other
\* than HS256, HS384 or HS512, or whose JWT_EXPIRATION_DELTA is set to
\* something that is not a positive integer, the start of the process raises
\* ValueError and ends with exit status 1: no route is ever registered and no
\* request is ever served
IsPositiveInteger(text) ==
    LET bare == strip(text)
        unsigned == IF bare # <<>> /\ Head(bare) = "+" THEN Tail(bare) ELSE bare
    IN  /\ unsigned # <<>>
        /\ \A i \in 1..Len(unsigned) : unsigned[i] \in Digits
        /\ \E i \in 1..Len(unsigned) : unsigned[i] # "0"

InvalidConfiguration(environ) ==
    \/ environ.BETTER_AUTH_SECRET = PyNone
    \/ Len(environ.BETTER_AUTH_SECRET.s) < 32
    \/ /\ environ.JWT_ALGORITHM # PyNone
       /\ environ.JWT_ALGORITHM.s \notin {"HS256", "HS384", "HS512"}
    \/ /\ environ.JWT_EXPIRATION_DELTA # PyNone
       /\ ~IsPositiveInteger(environ.JWT_EXPIRATION_DELTA.s)

C30_InvalidConfigurationAbortsStartup ==
    InvalidConfiguration(load_dotenv(process.start_environ, process.dotenv)) =>
        /\ process.pc \in {"start", "loaded", "imported", "exited"}
        /\ ~process.routes
        /\ process.served = 0
        /\ process.pc = "exited" =>
              process.raised = "ValueError" /\ process.exit_status = PyInt(1)
        /\ process.pc = "imported" =>
              validate_startup_configuration(process.environ) = ValueError

\* create_app has ended the process on an unsupported algorithm
C30_Witness ==
    /\ process.pc = "exited"
    /\ process.raised = "ValueError"
    /\ process.exit_status = PyInt(1)
    /\ process.environ.BETTER_AUTH_SECRET = PyStr([i \in 1..MinSecretLength |-> "k"])
    /\ process.environ.JWT_ALGORITHM = PyStr("RS256")
    /\ process.environ.JWT_EXPIRATION_DELTA = PyNone

\* C31: every token the running process issues is signed, and every token it
\* verifies is checked, with a key of at least 32 characters that is the one
\* the process read from BETTER_AUTH_SECRET when it started (the built-in key
\* when the variable was not set): however the variable is changed afterwards,
\* the result of the call is the result under that key
KeyAtStart == getenv(process.start_environ.BETTER_AUTH_SECRET, DefaultSecret).s

C32_CheckFollowsTheEnvironment ==
    process.call.op = "check" =>
        LET secret == process.environ.BETTER_AUTH_SECRET
            check == process.call.check
        IN  IF secret # PyNone /\ Len(secret.s) = 0
            THEN ~check.is_valid /\ check.message = "JWT_SECRET is not set or empty"
            ELSE IF secret # PyNone /\ Len(secret.s) < 32
            THEN /\ ~check.is_valid
                 /\ check.message = "JWT_SECRET is too short (minimum 32 characters)"
            ELSE IF secret # PyNone
            THEN check.is_valid /\ check.message = ""
            ELSE TRUE

\* C33: when PUT or PATCH of a task has found the owner's task and committed
\* the update, it answers 200 with that task in the body, carrying every
\* value of the patch, whatever other requests update or delete in between
C33_ResponseIsThePatchedTask ==
    session.pc = "done" /\ session.committed =>
        /\ session.resp.status = HTTP_200_OK
        /\ \E t \in session.resp.body :
              /\ session.resp.body = {t}
              /\ t.id = session.task_id
              /\ t.user_id = session.current_user_id
              /\ \A f \in DOMAIN session.update_data : t[f] = session.update_data[f]

\* C34: a call of update_user_resource, whatever its patch, leaves every row
\* of the table with the primary key and the owner it had, so that no row
\* moves from one principal's list to another's
C34_UpdateKeepsOwnerAndKey ==
    [][last'.req.op = "update_user_resource" =>
          /\ RowIds(tasks') = RowIds(tasks)
          /\ \A u \in UserIds :
                RowIds(get_user_owned_resources(tasks', u))
                    = RowIds(get_user_owned_resources(tasks, u))]_vars

\* C35: for a token that verify_token accepts, the user id the middleware
\* leaves in request.state is the value get_user_id_from_token returns for
\* the same token at the same instant
C35_MiddlewareAgreesWithTokenFunction ==
    /\ gate.pc = "done"
    /\ gate.outcome.state \in {"Rejected", "ProtectedAuthenticated"}
    /\ gate.outcome.token_payload.valid
    => get_user_id_from_token(gate.request.header.token, gate.at)
          = Returned(gate.outcome.user_id)


\* C36: the logins admitted for one client connection within any 900 seconds
\* are at most 5, whatever headers the client sends with its requests.
C36_AdmissionsPerConnection ==
    \A host \in ClientKeys :
        \A i \in DOMAIN admissions[host] :
            Cardinality({j \in DOMAIN admissions[host] :
                            /\ admissions[host][j] >= admissions[host][i]
                            /\ admissions[host][j] <
                                  admissions[host][i] + Seconds(LOGIN_WINDOW_SIZE)})
                <= LOGIN_ATTEMPTS_LIMIT


\* C37: once the limiter has rejected a POST /auth/register or /auth/login,
\* the request is answered 429 without any user lookup, credential check or
\* creation: no step of the rejected request changes the user table, and its
\* response is 429 with the user table untouched by the request, whether or
\* not the email has an account.
C37_RejectedBeforeAnyUserAccess ==
    [][(login.pc \in {"reset", "headers", "done"} /\ ~login.allowed)
          => /\ users' = users
             /\ login.store = "untouched"
             /\ login.pc = "done" => login.status = HTTP_429_TOO_MANY_REQUESTS]_vars

\* a registration for an email without account has been rejected and answered
C37_Witness ==
    /\ login.pc = "done"
    /\ login.endpoint = "register"
    /\ ~login.allowed
    /\ get_user_by_email(users, login.email) = {}
    /\ login.status = HTTP_429_TOO_MANY_REQUESTS


\* C38: in every reachable state, under any interleaving of concurrent
\* is_allowed calls, the timestamps stored for each key are in non-decreasing
\* order.
C38_TimestampsNonDecreasing ==
    \A l \in Limiters : \A k \in Keys :
        \A i \in DOMAIN requests[l][k] : \A j \in DOMAIN requests[l][k] :
            i < j => requests[l][k][i] <= requests[l][k][j]

\* a key holds two timestamps of different instants, the later one stored by
\* a call that has not returned yet while another call for the key waits for
\* the lock
C38_Witness ==
    \E k \in Keys : \E t1 \in Threads : \E t2 \in Threads \ {t1} :
        /\ Len(requests[Shared][k]) >= 2
        /\ requests[Shared][k][1] < requests[Shared][k][Len(requests[Shared][k])]
        /\ thr[t1].pc = "done" /\ thr[t1].result /\ thr[t1].key = k
        /\ thr[t2].pc = "waiting" /\ thr[t2].key = k


\* C39: every HTTP response of the application, the 401 responses of
\* JWTAuthMiddleware included, carries X-Content-Type-Options,
\* X-Frame-Options, X-XSS-Protection, Referrer-Policy and
\* Strict-Transport-Security.
C39_EveryResponseHasSecurityHeaders ==
    (gate.pc = "done" /\ (gate.dependency.called \/ ~gate.outcome.handler_called))
        => {"X-Content-Type-Options", "X-Frame-Options", "X-XSS-Protection",
            "Referrer-Policy", "Strict-Transport-Security"}
               \subseteq gate.response_headers


\* C40: after 'Mark Task Complete' reports success the task is complete, and
\* after 'Mark Task Incomplete' reports success the task is incomplete,
\* whatever its status was before.
C40_MarkSetsTheStatus ==
    (/\ cli.handled.success
     /\ cli.handled.option \in {"Mark Task Complete", "Mark Task Incomplete"})
        => \A task \in get_by_id(cli.task_manager, cli.handled.task_id.n) :
              task.is_complete = (cli.handled.option = "Mark Task Complete")

====
